---- MODULE Spec2Model ----
(***************************************************************************)
(* Smart-home hub: device lifecycle, sensor and actuator loops, reading    *)
(* channel, aggregate state, rule engine and controller cycle.             *)
(*                                                                         *)
(* The module holds several sub-models over one set of variables:          *)
(*   Dev*  one Device (src/devices/base.py) with concurrent start()/stop() *)
(*         callers and the loop threads they launch;                       *)
(*   Act*  one Actuator's set_state()/_execute_command() under its lock;   *)
(*   Hub*  the SmartHub controller cycle with its sensors and actuators;   *)
(*   Eng*  the RuleEngine: add_rule and evaluate_rules.                    *)
(* Each specification runs one sub-model and keeps the variables of the    *)
(* others at their initial values.                                         *)
(***************************************************************************)
EXTENDS Integers, Sequences, FiniteSets, TLC

\* ------------------------------------------------------------------------
\* Bounds of the model
\* ------------------------------------------------------------------------

\* start() calls on the device; each constructs at most one thread object.
MaxStarts == 2

\* stop() calls on the device.
MaxStops == 2

\* Readings a sensor loop publishes / commands put on an actuator's queue
\* that are counted (the device sub-model).
MaxWork == 1

\* ------------------------------------------------------------------------
\* Device sub-model: variables
\* ------------------------------------------------------------------------
VARIABLES
    kind,        \* "sensor" or "actuator": which subclass supplies _run
    enabled,     \* Device.enabled
    running,     \* Device._running
    thread,      \* Device._thread: 0 is None, else the id of a thread object
    created,     \* number of threading.Thread objects constructed so far
    loopPc,      \* per thread object: position of its _run loop
    callPc,      \* per caller: position inside start() / stop()
    joinTarget,  \* per caller: the thread object stop() is joining
    queued,      \* actuator: commands waiting on command_queue
    published,   \* sensor: readings put on data_queue (counted up to MaxWork)
    applied,     \* actuator: commands executed (counted up to MaxWork)
    raised,      \* an exception has propagated to a caller of start()/stop()
    starts,      \* observation: start() calls begun
    stops,       \* observation: stop() calls begun
    quiet,       \* observation: "no" | "called" | "returned" (stop() with no start() step since)
    restarted,   \* observation: "no" | "pending" | "yes": a start() called after a stop()
                 \* had returned is under way / has launched its loop
    joinTimedOut \* observation: the last stop() gave up its join

devVars == <<kind, enabled, running, thread, created, loopPc, callPc, joinTarget,
             queued, published, applied, raised, starts, stops, quiet, restarted,
             joinTimedOut>>

\* ------------------------------------------------------------------------
\* Actuator sub-model: variables
\* ------------------------------------------------------------------------
VARIABLES
    aKind,               \* "light" | "heater" | "alarm": the Actuator subclass
    aState,              \* Actuator._state
    aLock,               \* Device._lock: "free" or the worker holding it
    target_temperature,  \* HeaterActuator.target_temperature
    command_queue,       \* Actuator.command_queue
    wPc,                 \* per worker: position inside _run/_execute_command/set_state
    wCmd,                \* per worker: the command being executed
    wOld,                \* per worker: local old_state of set_state
    wNew,                \* per worker: argument new_state of set_state
    applyLog,            \* observation: the applications, in the order they took effect
    dropped,             \* observation: commands whose application raised
    enqueued             \* observation: commands put on the queue so far

actVars == <<aKind, aState, aLock, target_temperature, command_queue, wPc, wCmd, wOld,
             wNew, applyLog, dropped, enqueued>>

\* ------------------------------------------------------------------------
\* Hub sub-model: variables
\* ------------------------------------------------------------------------
VARIABLES
    config,          \* SmartHub.config: enabled devices, rule settings
    hub_running,     \* SmartHub._running
    hub_started,     \* observation: SmartHub.start() has been called
    hub_stops,       \* observation: SmartHub.stop() calls begun
    stop_pc,         \* position of the thread inside SmartHub.stop()
    sen_running,     \* per sensor: Device._running
    sen_pc,          \* per sensor: position of Sensor._run
    sen_value,       \* per sensor: Sensor._current_value
    sampled,         \* observation: readings sampled by the sensors so far
    sensor_data_queue, \* SmartHub.sensor_data_queue
    st_keys,         \* SmartHub.state: its top-level keys
    st_sensors,      \* the dict state['sensors']: sensor type -> slot object (0: no entry)
    st_top,          \* state['temperature'|'light'|'motion']: slot object (0: a fresh {})
    st_actuators,    \* the dict state['actuators']: actuator type -> <<state>> (<<>>: no entry)
    st_top_act,      \* state['heater'|'light_actuator'|'alarm'], by actuator type
    slots,           \* the heap of per-sensor slot dicts, sensor type -> object -> content
    ctl_pc,          \* position of SmartHub._controller_loop
    ctl_commands,    \* the commands of this cycle still to be routed
    act_running,     \* per actuator: Device._running
    act_pc,          \* per actuator: position of Actuator._run
    act_state,       \* per actuator: Actuator._state
    act_queue,       \* SmartHub.actuator_command_queues
    snap,            \* the dict the last get_state() returned
    snap_view,       \* observation: what that dict showed when it was returned
    dequeued,        \* observation: per reading, times taken off the channel
    folded,          \* observation: per reading, times written into its sensor's slot
    facade_calls     \* observation: control_actuator requests served

hubVars == <<config, hub_running, hub_started, hub_stops, stop_pc, sen_running, sen_pc, sen_value, sampled, sensor_data_queue,
             st_keys, st_sensors, st_top, st_actuators, st_top_act, slots,
             ctl_pc, ctl_commands, act_running, act_pc, act_state, act_queue,
             snap, snap_view, dequeued, folded, facade_calls>>


\* ------------------------------------------------------------------------
\* Rule engine sub-model: variables
\* ------------------------------------------------------------------------
VARIABLES
    eng_state,    \* the state snapshot evaluate_rules is called with
    eng_rules,    \* RuleEngine.rules
    eng_added,    \* observation: the rule ids in the order of their add_rule calls
    eng_last,     \* per rule id: Rule.last_triggered (0: None, else the time)
    eng_now,      \* datetime.now(): the evaluate_rules calls made so far
    eng_result,   \* observation: <<commands>> returned by the latest call (<<>>: none)
    eng_prev,     \* observation: <<commands>> returned by the call before it
    eng_before,   \* observation: last_triggered as it was before the latest call
    eng_raised,   \* observation: the latest call raised instead of returning
    eng_visited   \* observation: the rule ids the latest call evaluated, in order

engVars == <<eng_state, eng_rules, eng_added, eng_last, eng_now, eng_result, eng_prev,
             eng_before, eng_raised, eng_visited>>

\* ------------------------------------------------------------------------
\* Dashboard sub-model: variables
\* ------------------------------------------------------------------------
VARIABLES
    requested,    \* observation: the actuator name of the latest control request
    response      \* observation: the HTTP status it was answered with (0: none yet)

webVars == <<requested, response>>

\* ------------------------------------------------------------------------
\* SmartHub.start() called from several threads: variables
\* ------------------------------------------------------------------------
VARIABLES
    hs_pc,          \* per caller: where it is in SmartHub.start()
    hs_dev,         \* per caller: the device its start() is at (index)
    hs_calls,       \* the start() calls made so far
    hs_flag,        \* SmartHub._running
    hs_dev_flag,    \* per device: Device._running
    hs_loops,       \* per device: the loop threads launched
    hs_controllers  \* the controller threads launched

bootVars == <<hs_pc, hs_dev, hs_calls, hs_flag, hs_dev_flag, hs_loops, hs_controllers>>

\* ------------------------------------------------------------------------
\* SmartHub.stop() with its joins told apart: variables
\* ------------------------------------------------------------------------
VARIABLES
    timed_out       \* observation: a join(timeout=5.0) of stop() ran out

stopVars == <<timed_out>>

\* ------------------------------------------------------------------------
\* The away-mode hub (src/smart_hub.py): variables
\* ------------------------------------------------------------------------
VARIABLES
    away_mode,      \* SmartHub.away_mode
    alarm_status,   \* SmartHub.alarm_actuator.status
    alert_count,    \* SmartHub.alarm_actuator.alert_count
    proc_pc,        \* position of the thread in _process_sensor_data
    motions,        \* observation: motion readings taken off the queue
    away_pc,        \* position of the request thread in set_away_mode
    toggles         \* observation: set_away_mode calls made

awayVars == <<away_mode, alarm_status, alert_count, proc_pc, motions, away_pc, toggles>>

\* ------------------------------------------------------------------------
\* The loops of the hub with a step that raises: variables
\* ------------------------------------------------------------------------
VARIABLES
    ctl_faults,     \* observation: exceptions caught by _controller_loop
    sen_faults      \* observation: exceptions caught by the Sensor._run loops

faultVars == <<ctl_faults, sen_faults>>

\* ------------------------------------------------------------------------
\* The locks of the hub and of its devices: variables
\* ------------------------------------------------------------------------
VARIABLES
    lk_pc,          \* per thread: the lock operation it is at (0: not started)
    lk_held,        \* per lock: the thread holding it, or "free"
    lk_flag         \* per flag: SmartHub._running and each Device._running

lockVars == <<lk_pc, lk_held, lk_flag>>

\* ------------------------------------------------------------------------
\* The level a simulated sensor tracks (TemperatureSensor.current_temp, LightSensor.current_light)
\* ------------------------------------------------------------------------
VARIABLES
    lv_kind,        \* the sensor constructed: none, temperature or light
    lv_level,       \* self.current_temp / self.current_light
    lv_pc,          \* where the sensor loop and the controller are in their read-modify-write
    lv_tmp,         \* per thread: the level it read and the level it will store
    lv_ops,         \* read-modify-writes begun so far
    lv_out          \* the last value _read_sensor returned, if any

levelVars == <<lv_kind, lv_level, lv_pc, lv_tmp, lv_ops, lv_out>>

\* ------------------------------------------------------------------------
\* The thread-based sensors of the legacy hub (src/sensors.py)
\* ------------------------------------------------------------------------
VARIABLES
    ls_pc,          \* where each sensor thread is: unstarted, spawned, check, body, exited
    ls_running,     \* Sensor.running
    ls_stopped,     \* stop() has been called on the sensor
    ls_published    \* readings the sensor has put on the queue (counted up to the bound)

legacyVars == <<ls_pc, ls_running, ls_stopped, ls_published>>

\* What the actions of one sub-model leave alone: the other sub-models.
notDev == <<actVars, hubVars, engVars, webVars, bootVars, stopVars, awayVars, faultVars, lockVars, levelVars, legacyVars>>
notAct == <<devVars, hubVars, engVars, webVars, bootVars, stopVars, awayVars, faultVars, lockVars, levelVars, legacyVars>>
notHub == <<devVars, actVars, engVars, webVars, bootVars, stopVars, awayVars, faultVars, lockVars, levelVars, legacyVars>>
notEng == <<devVars, actVars, hubVars, webVars, bootVars, stopVars, awayVars, faultVars, lockVars, levelVars, legacyVars>>
notWeb == <<devVars, actVars, engVars, bootVars, stopVars, awayVars, faultVars, lockVars, levelVars, legacyVars>>
notBoot == <<devVars, actVars, hubVars, engVars, webVars, stopVars, awayVars, faultVars, lockVars, levelVars, legacyVars>>
notStop == <<devVars, actVars, engVars, webVars, bootVars, awayVars, faultVars, lockVars, levelVars, legacyVars>>
notAway == <<devVars, actVars, hubVars, engVars, webVars, bootVars, stopVars, faultVars, lockVars, levelVars, legacyVars>>
notFault == <<devVars, actVars, engVars, webVars, bootVars, stopVars, awayVars, lockVars, levelVars, legacyVars>>
notLock == <<devVars, actVars, hubVars, engVars, webVars, bootVars, stopVars, awayVars, faultVars, levelVars, legacyVars>>
notLevel == <<devVars, actVars, hubVars, engVars, webVars, bootVars, stopVars, awayVars, faultVars, lockVars, legacyVars>>
notLegacy == <<devVars, actVars, hubVars, engVars, webVars, bootVars, stopVars, awayVars, faultVars, lockVars, levelVars>>

vars == <<devVars, actVars, hubVars, engVars, webVars, bootVars, stopVars, awayVars, faultVars, lockVars, levelVars, legacyVars>>

Callers == {"c1", "c2"}
Threads == 1..MaxStarts

\* A loop is alive from Thread.start() until _run returns.
Alive == {t \in Threads : loopPc[t] \notin {"unborn", "exited"}}

Min(a, b) == IF a < b THEN a ELSE b

\* ------------------------------------------------------------------------
\* Device.__init__
\* ------------------------------------------------------------------------
DevInit ==
    /\ kind \in {"sensor", "actuator"}
    /\ enabled \in BOOLEAN
    /\ running = FALSE
    /\ thread = 0
    /\ created = 0
    /\ loopPc = [t \in Threads |-> "unborn"]
    /\ callPc = [c \in Callers |-> "idle"]
    /\ joinTarget = [c \in Callers |-> 0]
    /\ queued = 0
    /\ published = 0
    /\ applied = 0
    /\ raised = FALSE
    /\ starts = 0
    /\ stops = 0
    /\ quiet = "no"
    /\ restarted = "no"
    /\ joinTimedOut = FALSE

\* ------------------------------------------------------------------------
\* Device.start
\* ------------------------------------------------------------------------

StartProceeds_NoEnabledCheck == ~running

\* The two early returns of start(): disabled, already running.
StartProceeds == enabled /\ ~running

\* start(), lines 21-27: the checks. No lock is held.
StartBegin(c) ==
    /\ callPc[c] = "idle"
    /\ starts < MaxStarts
    /\ starts' = starts + 1
    /\ quiet' = "no"
    /\ callPc' = [callPc EXCEPT ![c] = IF StartProceeds THEN "start_set" ELSE "idle"]
    /\ restarted' = IF StartProceeds /\ quiet = "returned" THEN "pending" ELSE restarted
    /\ UNCHANGED notDev
    /\ UNCHANGED <<kind, enabled, running, thread, created, loopPc, joinTarget, queued,
                   published, applied, raised, stops, joinTimedOut>>

\* start(), line 29: self._running = True
StartSet(c) ==
    /\ callPc[c] = "start_set"
    /\ running' = TRUE
    /\ quiet' = "no"
    /\ callPc' = [callPc EXCEPT ![c] = "start_new"]
    /\ UNCHANGED notDev
    /\ UNCHANGED <<kind, enabled, thread, created, loopPc, joinTarget, queued, published,
                   applied, raised, starts, stops, restarted, joinTimedOut>>

\* start(), line 30: self._thread = threading.Thread(target=self._run)
StartNew(c) ==
    /\ callPc[c] = "start_new"
    /\ created' = created + 1
    /\ thread' = created + 1
    /\ quiet' = "no"
    /\ callPc' = [callPc EXCEPT ![c] = "start_launch"]
    /\ UNCHANGED notDev
    /\ UNCHANGED <<kind, enabled, running, loopPc, joinTarget, queued, published, applied,
                   raised, starts, stops, restarted, joinTimedOut>>

\* start(), line 31: self._thread.start(). The attribute is read again, so
\* after a racing start() it may name the other caller's thread object;
\* Thread.start() on a started thread raises RuntimeError.
StartLaunch(c) ==
    /\ callPc[c] = "start_launch"
    /\ quiet' = "no"
    /\ callPc' = [callPc EXCEPT ![c] = "idle"]
    /\ IF loopPc[thread] = "unborn"
         THEN /\ loopPc' = [loopPc EXCEPT ![thread] = "check"]
              /\ restarted' = IF restarted = "pending" THEN "yes" ELSE restarted
              /\ UNCHANGED raised
         ELSE /\ raised' = TRUE
              /\ UNCHANGED <<loopPc, restarted>>
    /\ UNCHANGED notDev
    /\ UNCHANGED <<kind, enabled, running, thread, created, joinTarget, queued, published,
                   applied, starts, stops, joinTimedOut>>

\* ------------------------------------------------------------------------
\* Device.stop
\* ------------------------------------------------------------------------

\* stop(), lines 35-36: with self._lock: self._running = False
StopFlag(c) ==
    /\ callPc[c] = "idle"
    /\ stops < MaxStops
    /\ stops' = stops + 1
    /\ running' = FALSE
    /\ quiet' = "called"
    /\ restarted' = "no"
    /\ joinTimedOut' = FALSE
    /\ callPc' = [callPc EXCEPT ![c] = "stop_thread"]
    /\ UNCHANGED notDev
    /\ UNCHANGED <<kind, enabled, thread, created, loopPc, joinTarget, queued, published,
                   applied, raised, starts>>

StopDone(c) ==
    /\ callPc' = [callPc EXCEPT ![c] = "idle"]
    /\ joinTarget' = [joinTarget EXCEPT ![c] = 0]
    /\ quiet' = IF quiet = "called" THEN "returned" ELSE quiet

\* stop(), lines 37-38: if self._thread: self._thread.join(timeout=5.0).
\* Thread.join() on a thread that was never started raises RuntimeError.
StopThread(c) ==
    /\ callPc[c] = "stop_thread"
    /\ IF thread = 0
         THEN /\ StopDone(c)
              /\ UNCHANGED raised
         ELSE IF loopPc[thread] = "unborn"
         THEN /\ StopDone(c)
              /\ raised' = TRUE
         ELSE /\ callPc' = [callPc EXCEPT ![c] = "stop_join"]
              /\ joinTarget' = [joinTarget EXCEPT ![c] = thread]
              /\ UNCHANGED <<quiet, raised>>
    /\ UNCHANGED notDev
    /\ UNCHANGED <<kind, enabled, running, thread, created, loopPc, queued, published,
                   applied, starts, stops, restarted, joinTimedOut>>

\* join() returns because the loop has exited.
StopJoined(c) ==
    /\ callPc[c] = "stop_join"
    /\ loopPc[joinTarget[c]] = "exited"
    /\ StopDone(c)
    /\ UNCHANGED notDev
    /\ UNCHANGED <<kind, enabled, running, thread, created, loopPc, queued, published,
                   applied, raised, starts, stops, restarted, joinTimedOut>>

\* join() returns because the 5 s ran out: the loop is left running.
StopTimeout(c) ==
    /\ callPc[c] = "stop_join"
    /\ loopPc[joinTarget[c]] # "exited"
    /\ StopDone(c)
    /\ joinTimedOut' = TRUE
    /\ UNCHANGED notDev
    /\ UNCHANGED <<kind, enabled, running, thread, created, loopPc, queued, published,
                   applied, raised, starts, stops, restarted>>

\* ------------------------------------------------------------------------
\* Sensor._run / Actuator._run
\* ------------------------------------------------------------------------

LoopContinues_Always == TRUE

\* while self.is_running(): a read of _running under the device lock.
LoopContinues == running

LoopCheck(t) ==
    /\ loopPc[t] = "check"
    /\ loopPc' = [loopPc EXCEPT ![t] = IF LoopContinues
                                        THEN (IF kind = "sensor" THEN "read" ELSE "poll")
                                        ELSE "exited"]
    /\ UNCHANGED notDev
    /\ UNCHANGED <<kind, enabled, running, thread, created, callPc, joinTarget, queued,
                   published, applied, raised, starts, stops, quiet, restarted, joinTimedOut>>

\* Sensor._run, lines 77-79: value = self._read_sensor(); store it under the lock.
SensorRead(t) ==
    /\ loopPc[t] = "read"
    /\ loopPc' = [loopPc EXCEPT ![t] = "send"]
    /\ UNCHANGED notDev
    /\ UNCHANGED <<kind, enabled, running, thread, created, callPc, joinTarget, queued,
                   published, applied, raised, starts, stops, quiet, restarted, joinTimedOut>>

\* Sensor._run, lines 82-84: _read_sensor raised; log, sleep, next iteration.
SensorReadFails(t) ==
    /\ loopPc[t] = "read"
    /\ loopPc' = [loopPc EXCEPT ![t] = "check"]
    /\ UNCHANGED notDev
    /\ UNCHANGED <<kind, enabled, running, thread, created, callPc, joinTarget, queued,
                   published, applied, raised, starts, stops, quiet, restarted, joinTimedOut>>

\* Sensor._run, lines 80-81: self._send_data(...); time.sleep(update_interval)
SensorSend(t) ==
    /\ loopPc[t] = "send"
    /\ published' = Min(published + 1, MaxWork)
    /\ loopPc' = [loopPc EXCEPT ![t] = "check"]
    /\ UNCHANGED notDev
    /\ UNCHANGED <<kind, enabled, running, thread, created, callPc, joinTarget, queued,
                   applied, raised, starts, stops, quiet, restarted, joinTimedOut>>

\* Actuator._run, lines 118 and 121-122: is the queue empty? If so sleep 0.1 s.
ActuatorPoll(t) ==
    /\ loopPc[t] = "poll"
    /\ loopPc' = [loopPc EXCEPT ![t] = IF queued > 0 THEN "get" ELSE "check"]
    /\ UNCHANGED notDev
    /\ UNCHANGED <<kind, enabled, running, thread, created, callPc, joinTarget, queued,
                   published, applied, raised, starts, stops, quiet, restarted, joinTimedOut>>

\* Actuator._run, lines 119-120: command_queue.get(timeout=0.1), then
\* _execute_command. With the queue emptied meanwhile by another loop of the
\* same actuator, get() raises Empty, caught at lines 123-126.
ActuatorGet(t) ==
    /\ loopPc[t] = "get"
    /\ loopPc' = [loopPc EXCEPT ![t] = "check"]
    /\ IF queued > 0
         THEN /\ queued' = queued - 1
              /\ applied' = Min(applied + 1, MaxWork)
         ELSE UNCHANGED <<queued, applied>>
    /\ UNCHANGED notDev
    /\ UNCHANGED <<kind, enabled, running, thread, created, callPc, joinTarget,
                   published, raised, starts, stops, quiet, restarted, joinTimedOut>>

\* A producer puts a command on the actuator's command_queue.
DevEnqueue ==
    /\ kind = "actuator"
    /\ queued + applied < MaxWork
    /\ queued' = queued + 1
    /\ UNCHANGED notDev
    /\ UNCHANGED <<kind, enabled, running, thread, created, loopPc, callPc, joinTarget,
                   published, applied, raised, starts, stops, quiet, restarted, joinTimedOut>>

LoopStep(t) ==
    \/ LoopCheck(t)
    \/ SensorRead(t)
    \/ SensorReadFails(t)
    \/ SensorSend(t)
    \/ ActuatorPoll(t)
    \/ ActuatorGet(t)

CallStep(c) ==
    \/ StartBegin(c)
    \/ StartSet(c)
    \/ StartNew(c)
    \/ StartLaunch(c)
    \/ StopFlag(c)
    \/ StopThread(c)
    \/ StopJoined(c)
    \/ StopTimeout(c)

DevNext(C) ==
    \/ \E c \in C : CallStep(c)
    \/ \E t \in Threads : LoopStep(t)
    \/ DevEnqueue

\* ========================================================================
\* Actuator sub-model: set_state() and _execute_command() of one actuator,
\* called from two threads that drain the same command queue
\* ========================================================================

\* Commands put on the actuator's queue.
MaxCmds == 2

Workers == {"w1", "w2"}

ActuatorKinds == {"light", "heater", "alarm"}

\* A command dict; "none" stands for an absent key.
Command(a, s, tt) == [action |-> a, state |-> s, target_temperature |-> tt]

CommandSet ==
    {Command(a, "none", "none") :
        a \in {"turn_on", "turn_off", "toggle", "activate", "deactivate"}}
    \cup {Command("none", s, "none") : s \in {"True", "False", "0"}}
    \cup {Command("turn_off", "True", "none"),
          Command("none", "none", "25"),
          Command("turn_on", "none", "abc")}

NoCommand == Command("none", "none", "none")

\* bool(command['state'])
Bool(x) == x \notin {"False", "0", "", "None"}

\* float(command['target_temperature']) raises ValueError on a non-numeric string.
FloatRaises(x) == x \notin {"20", "25"}

Float(x) == IF x = "25" THEN 25 ELSE 20

\* LightActuator._execute_command: what the command asks of the state.
LightExecute(cmd) ==
    IF cmd.action # "none"
      THEN IF cmd.action = "turn_on" THEN "set_true"
           ELSE IF cmd.action = "turn_off" THEN "set_false"
           ELSE IF cmd.action = "toggle" THEN "toggle"
           ELSE "nothing"
      ELSE IF cmd.state # "none"
      THEN (IF Bool(cmd.state) THEN "set_true" ELSE "set_false")
      ELSE "nothing"

\* HeaterActuator._execute_command, the state part.
HeaterExecute(cmd) ==
    IF cmd.action # "none"
      THEN IF cmd.action = "turn_on" THEN "set_true"
           ELSE IF cmd.action = "turn_off" THEN "set_false"
           ELSE IF cmd.action = "toggle" THEN "toggle"
           ELSE "nothing"
      ELSE IF cmd.state # "none"
      THEN (IF Bool(cmd.state) THEN "set_true" ELSE "set_false")
      ELSE "nothing"

AlarmExecute_LightVerbs(cmd) ==
    IF cmd.action # "none"
      THEN IF cmd.action \in {"activate", "turn_on"} THEN "set_true"
           ELSE IF cmd.action \in {"deactivate", "turn_off"} THEN "set_false"
           ELSE IF cmd.action = "toggle" THEN "toggle"
           ELSE "nothing"
      ELSE IF cmd.state # "none"
      THEN (IF Bool(cmd.state) THEN "set_true" ELSE "set_false")
      ELSE "nothing"

AlarmExecute_ActivateToggles(cmd) ==
    IF cmd.action # "none"
      THEN IF cmd.action = "activate" THEN "toggle"
           ELSE IF cmd.action = "deactivate" THEN "set_false"
           ELSE IF cmd.action = "toggle" THEN "toggle"
           ELSE "nothing"
      ELSE IF cmd.state # "none"
      THEN (IF Bool(cmd.state) THEN "set_true" ELSE "set_false")
      ELSE "nothing"

\* AlarmActuator._execute_command.
AlarmExecute(cmd) ==
    IF cmd.action # "none"
      THEN IF cmd.action = "activate" THEN "set_true"
           ELSE IF cmd.action = "deactivate" THEN "set_false"
           ELSE IF cmd.action = "toggle" THEN "toggle"
           ELSE "nothing"
      ELSE IF cmd.state # "none"
      THEN (IF Bool(cmd.state) THEN "set_true" ELSE "set_false")
      ELSE "nothing"

ExecuteCommand(k, cmd) ==
    IF k = "light" THEN LightExecute(cmd)
    ELSE IF k = "heater" THEN HeaterExecute(cmd)
    ELSE AlarmExecute(cmd)

StateChanged_Always(old, new) == TRUE

\* set_state, line 103: if old_state != new_state
StateChanged(old, new) == old # new

LockAvailable_NoLock == TRUE

\* with self._lock: the lock is a non-reentrant threading.Lock
LockAvailable == aLock = "free"

\* Subclass __init__: _state = initial_state, an empty queue.
ActInit ==
    /\ aKind \in ActuatorKinds
    /\ aState \in BOOLEAN
    /\ aLock = "free"
    /\ target_temperature = 20
    /\ command_queue = <<>>
    /\ wPc = [w \in Workers |-> "idle"]
    /\ wCmd = [w \in Workers |-> NoCommand]
    /\ wOld = [w \in Workers |-> FALSE]
    /\ wNew = [w \in Workers |-> FALSE]
    /\ applyLog = <<>>
    /\ dropped = 0
    /\ enqueued = 0

\* A producer (controller routing, dashboard) puts a command on the queue.
ActEnqueue(cmd) ==
    /\ enqueued < MaxCmds
    /\ enqueued' = enqueued + 1
    /\ command_queue' = Append(command_queue, cmd)
    /\ UNCHANGED notAct
    /\ UNCHANGED <<aKind, aState, aLock, target_temperature, wPc, wCmd, wOld, wNew,
                   applyLog, dropped>>

\* An application that does not go through set_state, as it shows in the log.
Untouched(w, cmd) ==
    [by |-> w, cmd |-> cmd, set |-> FALSE, new |-> aState, before |-> aState,
     notified |-> FALSE, after |-> aState]

\* Actuator._run, lines 118-120: command = command_queue.get(); then the
\* first branch of _execute_command.
ActTake(w) ==
    /\ wPc[w] = "idle"
    /\ command_queue # <<>>
    /\ LET cmd == Head(command_queue)
           what == ExecuteCommand(aKind, cmd)
       IN /\ command_queue' = Tail(command_queue)
          /\ wCmd' = [wCmd EXCEPT ![w] = cmd]
          /\ wPc' = [wPc EXCEPT ![w] =
                        CASE what = "toggle" -> "toggle"
                          [] what = "nothing" -> "tail"
                          [] OTHER -> "set_state"]
          /\ wNew' = [wNew EXCEPT ![w] = (what = "set_true")]
          /\ applyLog' = IF what = "nothing" THEN Append(applyLog, Untouched(w, cmd))
                         ELSE applyLog
    /\ UNCHANGED notAct
    /\ UNCHANGED <<aKind, aState, aLock, target_temperature, wOld, dropped, enqueued>>

\* toggle: current = self.get_state() (lock, read, unlock); set_state(not current)
ActToggleRead(w) ==
    /\ wPc[w] = "toggle"
    /\ LockAvailable
    /\ wNew' = [wNew EXCEPT ![w] = ~aState]
    /\ wPc' = [wPc EXCEPT ![w] = "set_state"]
    /\ UNCHANGED notAct
    /\ UNCHANGED <<aKind, aState, aLock, target_temperature, command_queue, wCmd, wOld,
                   applyLog, dropped, enqueued>>

\* set_state, lines 100-101: take the lock, old_state = self._state
SetStateEnter(w) ==
    /\ wPc[w] = "set_state"
    /\ LockAvailable
    /\ aLock' = w
    /\ wOld' = [wOld EXCEPT ![w] = aState]
    /\ wPc' = [wPc EXCEPT ![w] = "assign"]
    /\ UNCHANGED notAct
    /\ UNCHANGED <<aKind, aState, target_temperature, command_queue, wCmd, wNew,
                   applyLog, dropped, enqueued>>

\* set_state, lines 102-105: self._state = new_state; notify if it differs
\* from old_state; leave the lock.
SetStateAssign(w) ==
    /\ wPc[w] = "assign"
    /\ aState' = wNew[w]
    /\ aLock' = "free"
    /\ applyLog' = Append(applyLog,
                     [by |-> w, cmd |-> wCmd[w], set |-> TRUE, new |-> wNew[w], before |-> aState,
                      notified |-> StateChanged(wOld[w], wNew[w]), after |-> wNew[w]])
    /\ wPc' = [wPc EXCEPT ![w] = "tail"]
    /\ UNCHANGED notAct
    /\ UNCHANGED <<aKind, target_temperature, command_queue, wCmd, wOld, wNew, dropped,
                   enqueued>>

ActTail_Retries(w) ==
    /\ wPc[w] = "tail"
    /\ wPc' = [wPc EXCEPT ![w] = "idle"]
    /\ wCmd' = [wCmd EXCEPT ![w] = NoCommand]
    /\ IF aKind = "heater" /\ wCmd[w].target_temperature # "none"
         THEN IF FloatRaises(wCmd[w].target_temperature)
                THEN /\ dropped' = dropped + 1
                     /\ command_queue' = Append(command_queue, wCmd[w])
                     /\ UNCHANGED target_temperature
                ELSE /\ target_temperature' = Float(wCmd[w].target_temperature)
                     /\ UNCHANGED <<dropped, command_queue>>
         ELSE UNCHANGED <<target_temperature, dropped, command_queue>>
    /\ UNCHANGED notAct
    /\ UNCHANGED <<aKind, aState, aLock, wOld, wNew, applyLog, enqueued>>

\* HeaterActuator._execute_command, lines 67-68, and the return to _run; a
\* ValueError from float() is caught by _run (lines 123-126).
ActTail(w) ==
    /\ wPc[w] = "tail"
    /\ wPc' = [wPc EXCEPT ![w] = "idle"]
    /\ wCmd' = [wCmd EXCEPT ![w] = NoCommand]
    /\ IF aKind = "heater" /\ wCmd[w].target_temperature # "none"
         THEN IF FloatRaises(wCmd[w].target_temperature)
                THEN /\ dropped' = dropped + 1
                     /\ UNCHANGED target_temperature
                ELSE /\ target_temperature' = Float(wCmd[w].target_temperature)
                     /\ UNCHANGED dropped
         ELSE UNCHANGED <<target_temperature, dropped>>
    /\ UNCHANGED notAct
    /\ UNCHANGED <<aKind, aState, aLock, command_queue, wOld, wNew, applyLog, enqueued>>

ActNext ==
    \/ \E cmd \in CommandSet : ActEnqueue(cmd)
    \/ \E w \in Workers :
         \/ ActTake(w)
         \/ ActToggleRead(w)
         \/ SetStateEnter(w)
         \/ SetStateAssign(w)
         \/ ActTail(w)

\* ========================================================================
\* Hub sub-model: SmartHub with its sensors, actuators and controller loop
\* ========================================================================

\* Readings the sensors of the hub sample, all together.
MaxSamples == 2

\* Commands one actuator queue holds before the controller waits for the
\* actuator (Queue() itself is unbounded).
MaxQueue == 2

\* SmartHub.stop() calls.
MaxHubStops == 1

\* control_actuator requests.
MaxFacade == 1

\* The slot dicts of one sensor type alive at once: one referenced from
\* state['sensors'], one from the top-level key, one from a returned snapshot.
SlotRefs == {1, 2, 3}

SensorTypes == {"temperature", "light", "motion"}

ActuatorTypes == {"light", "heater", "alarm"}

\* _initialize_devices: the keys of self.sensors / self.actuators in insertion order.
SensorOrder == <<"temperature", "light", "motion">>

ActuatorOrder == <<"light", "heater", "alarm">>

\* device_id given to each sensor by _initialize_devices.
DeviceId(s) ==
    CASE s = "temperature" -> "temp_01"
      [] s = "light" -> "light_01"
      [] s = "motion" -> "motion_01"

\* The dict _send_data puts on the queue.
Reading(s, v, n) ==
    [sensor_id |-> DeviceId(s), value |-> v, timestamp |-> n]

\* The top-level state key of each actuator type (_update_state, lines 221-223).
ActuatorKey(a) ==
    CASE a = "heater" -> "heater"
      [] a = "light" -> "light_actuator"
      [] a = "alarm" -> "alarm"

\* initial_value of the sensor constructors; MotionSensor starts at False.
InitialValue(s) ==
    CASE s = "temperature" -> 20
      [] s = "light" -> 50
      [] s = "motion" -> FALSE

\* The value _read_sensor returns unless the configuration says otherwise:
\* one per sensor type, in its range and different from the initial value (a
\* temperature under the low threshold, a light level under the threshold,
\* motion). The hub copies the values; only the rules look at them.
OneSample ==
    [temperature |-> {15}, light |-> {20}, motion |-> {TRUE}]

\* A config.json: the enabled devices, the rule settings, and (from the
\* sensors' min_value, max_value, variation_range) the values they sample.
Config(ss, as, occupied) ==
    [sensors |-> ss, actuators |-> as,
     rules |-> [temperature_threshold_low |-> 18, temperature_threshold_high |-> 22,
                light_threshold_low |-> 30, home_occupied |-> occupied],
     samples |-> OneSample]

\* A hub with one sensor and one actuator.
SmallHome == Config({"temperature"}, {"heater"}, TRUE)

\* A hub with two sensors feeding the reading channel, nobody home, and no
\* actuator installed.
TwoSensorHome == Config({"light", "motion"}, {}, FALSE)

\* The small hub with a temperature that moves between samples.
VariedHome == [SmallHome EXCEPT !.samples["temperature"] = {15, 23}]

HubConfigs == {SmallHome, TwoSensorHome}

\* The values _read_sensor can return in some configuration.
SensorValues(s) ==
    CASE s = "temperature" -> {15, 23}
      [] s = "light" -> {20}
      [] s = "motion" -> BOOLEAN

Sensors == config.sensors

Actuators == config.actuators

\* A slot dict that holds nothing yet.
EmptySlot(s) == [value |-> InitialValue(s), timestamp |-> 0]

\* The readings, numbered in the order they are put on the channel (the
\* order of their time.time() timestamps).
Readings == 1..MaxSamples

NoSnapshot ==
    [taken |-> FALSE, keys |-> {}, top |-> [s \in SensorTypes |-> 0],
     actuators |-> [a \in ActuatorTypes |-> <<>>],
     top_act |-> [a \in ActuatorTypes |-> <<>>]]

NoView ==
    [keys |-> {}, sensors |-> [s \in SensorTypes |-> <<>>],
     top |-> [s \in SensorTypes |-> <<>>],
     actuators |-> [a \in ActuatorTypes |-> <<>>],
     top_act |-> [a \in ActuatorTypes |-> <<>>]]

\* The devices SmartHub.start() starts, sensors first.
BootDevices == <<"temperature", "heater">>

\* SmartHub.__init__ and Device.__init__: no flag set, no thread.
BootConstructed ==
    /\ hs_pc = [c \in Callers |-> "idle"]
    /\ hs_dev = [c \in Callers |-> 0]
    /\ hs_calls = 0
    /\ hs_flag = FALSE
    /\ hs_dev_flag = [i \in 1..Len(BootDevices) |-> FALSE]
    /\ hs_loops = [i \in 1..Len(BootDevices) |-> 0]
    /\ hs_controllers = 0

\* The threads of a started hub: the controller, the loop of a sensor, the
\* loop of an actuator, a request thread of the dashboard, and the main
\* thread, which calls stop().
LockThreads == {"controller", "sensor", "actuator", "web", "main"}

\* The state lock and the lock of each device.
Locks == {"state", "temperature", "heater"}

\* SmartHub._running and the _running of each device.
Flags == {"hub", "temperature", "heater"}

\* SmartHub.__init__ and Device.__init__: every lock free, no flag set, no
\* thread started.
LocksConstructed ==
    /\ lk_pc = [t \in LockThreads |-> 0]
    /\ lk_held = [l \in Locks |-> "free"]
    /\ lk_flag = [f \in Flags |-> FALSE]

\* ---- The sensor threads of the legacy hub ----

\* Readings of one legacy sensor that are told apart; later ones count as
\* the last.
MaxLegacyReadings == 2

\* SmartHub.__init__ of the legacy hub: its three sensors.
LegacySensors == {"Temperature", "Light", "Motion"}

\* Sensor.__init__: running is False, the thread is not started.
LegacyConstructed ==
    /\ ls_pc = [s \in LegacySensors |-> "unstarted"]
    /\ ls_running = [s \in LegacySensors |-> FALSE]
    /\ ls_stopped = [s \in LegacySensors |-> FALSE]
    /\ ls_published = [s \in LegacySensors |-> 0]

\* ---- The simulated level of a sensor ----

\* Read-modify-writes of the level one run makes, sensor loop and
\* controller together.
MaxLevelOps == 3

LevelThreads == {"sensor", "controller"}

\* The constructor defaults of TemperatureSensor, in units of 0.05 degrees,
\* and of LightSensor, in units of 5: min_value, max_value, initial_value,
\* variation_range, and the steps simulate_*_effect adds and takes away.
LevelDefaults ==
    [temperature |-> [min_value |-> 300, max_value |-> 500, initial_value |-> 400,
                      variation_range |-> 40, up |-> 2, down |-> 1],
     light |-> [min_value |-> 0, max_value |-> 20, initial_value |-> 10,
                variation_range |-> 2, up |-> 4, down |-> 1]]

\* Initial values a configuration can give: the default and the two ends.
InitialLevels(k) ==
    {LevelDefaults[k].min_value, LevelDefaults[k].initial_value, LevelDefaults[k].max_value}

\* random.uniform(-variation_range, variation_range).
Variations(k) == {0 - LevelDefaults[k].variation_range, 0, LevelDefaults[k].variation_range}

Max(a, b) == IF a > b THEN a ELSE b

\* No sensor constructed yet.
LevelUnbuilt ==
    /\ lv_kind = "none"
    /\ lv_level = 0
    /\ lv_pc = [t \in LevelThreads |-> "idle"]
    /\ lv_tmp = [t \in LevelThreads |-> [read |-> 0, new |-> 0]]
    /\ lv_ops = 0
    /\ lv_out = <<>>

\* SmartHub.__init__ of src/smart_hub.py: away mode off, the alarm inactive.
AwayConstructed ==
    /\ away_mode = FALSE
    /\ alarm_status = FALSE
    /\ alert_count = 0
    /\ proc_pc = "get"
    /\ motions = 0
    /\ away_pc = "idle"
    /\ toggles = 0

\* SmartHub.__init__ and _initialize_devices, the configuration given.
HubConstructed ==
    /\ hub_running = FALSE
    /\ hub_started = FALSE
    /\ hub_stops = 0
    /\ stop_pc = <<"idle">>
    /\ sen_running = [s \in SensorTypes |-> FALSE]
    /\ sen_pc = [s \in SensorTypes |-> "unborn"]
    /\ sen_value = [s \in SensorTypes |-> InitialValue(s)]
    /\ sampled = 0
    /\ sensor_data_queue = <<>>
    /\ st_keys = {}
    /\ st_sensors = [s \in SensorTypes |-> 0]
    /\ st_top = [s \in SensorTypes |-> 0]
    /\ st_actuators = [a \in ActuatorTypes |-> <<>>]
    /\ st_top_act = [a \in ActuatorTypes |-> <<>>]
    /\ slots = [s \in SensorTypes |-> [k \in SlotRefs |-> EmptySlot(s)]]
    /\ ctl_pc = "unborn"
    /\ ctl_commands = <<>>
    /\ act_running = [a \in ActuatorTypes |-> FALSE]
    /\ act_pc = [a \in ActuatorTypes |-> "unborn"]
    /\ act_state = [a \in ActuatorTypes |-> FALSE]
    /\ act_queue = [a \in ActuatorTypes |-> <<>>]
    /\ snap = NoSnapshot
    /\ snap_view = NoView
    /\ dequeued = [r \in Readings |-> 0]
    /\ folded = [r \in Readings |-> 0]
    /\ facade_calls = 0
    /\ requested = "none"
    /\ response = 0
    /\ BootConstructed
    /\ timed_out = FALSE
    /\ AwayConstructed
    /\ LegacyConstructed
    /\ LevelUnbuilt
    /\ LocksConstructed
    /\ ctl_faults = 0
    /\ sen_faults = 0

\* SmartHub(config) for one of the configurations.
HubInit == config \in HubConfigs /\ HubConstructed

\* ------------------------------------------------------------------------
\* SmartHub.start / SmartHub.stop
\* ------------------------------------------------------------------------

\* start(): the hub is started once, from the main thread (main.py, line 47),
\* which is also the thread that calls stop(), and never after a stop().
\* Every device is constructed enabled and not running, so each
\* Device.start() launches its loop.
HubStart ==
    /\ ~hub_started
    /\ hub_stops = 0
    /\ ~hub_running
    /\ hub_started' = TRUE
    /\ hub_running' = TRUE
    /\ sen_running' = [s \in SensorTypes |-> s \in Sensors]
    /\ sen_pc' = [s \in SensorTypes |-> IF s \in Sensors THEN "check" ELSE "unborn"]
    /\ act_running' = [a \in ActuatorTypes |-> a \in Actuators]
    /\ act_pc' = [a \in ActuatorTypes |-> IF a \in Actuators THEN "check" ELSE "unborn"]
    /\ ctl_pc' = "top"
    /\ UNCHANGED notHub
    /\ UNCHANGED <<config, hub_stops, stop_pc, sen_value, sampled,
                   sensor_data_queue, st_keys, st_sensors, st_top, st_actuators,
                   st_top_act, slots, ctl_commands, act_state, act_queue, snap,
                   snap_view, dequeued, folded, facade_calls>>

\* The devices stop() goes through: the sensors, then the actuators.
StopOrder ==
    SelectSeq(SensorOrder, LAMBDA s : s \in Sensors)
        \o SelectSeq(ActuatorOrder, LAMBDA a : a \in Actuators)

IsSensorIndex(i) == i <= Len(SelectSeq(SensorOrder, LAMBDA s : s \in Sensors))

\* Where stop() goes after the device at index i.
AfterDevice(i) ==
    IF i < Len(StopOrder) THEN <<"device", i + 1>> ELSE <<"controller">>

\* stop(), lines 145-146: self._running = False
HubStopBegin ==
    /\ stop_pc[1] \in {"idle", "returned"}
    /\ hub_stops < MaxHubStops
    /\ hub_stops' = hub_stops + 1
    /\ hub_running' = FALSE
    /\ stop_pc' = IF Len(StopOrder) > 0 THEN <<"device", 1>> ELSE <<"controller">>
    /\ UNCHANGED notHub
    /\ UNCHANGED <<config, hub_started, sen_running, sen_pc, sen_value, sampled,
                   sensor_data_queue, st_keys, st_sensors, st_top, st_actuators,
                   st_top_act, slots, ctl_pc, ctl_commands, act_running, act_pc,
                   act_state, act_queue, snap, snap_view, dequeued, folded, facade_calls>>

\* Device.stop() of the next device: clear its flag under its lock, then
\* join its thread for up to 5 s; the call returns with the loop ended or,
\* the 5 s over, still on its way to the flag.
HubStopDevice ==
    /\ stop_pc[1] = "device"
    /\ LET i == stop_pc[2]
           d == StopOrder[i]
       IN /\ IF IsSensorIndex(i)
               THEN /\ sen_running' = [sen_running EXCEPT ![d] = FALSE]
                    /\ UNCHANGED act_running
               ELSE /\ act_running' = [act_running EXCEPT ![d] = FALSE]
                    /\ UNCHANGED sen_running
          /\ stop_pc' = AfterDevice(i)
    /\ UNCHANGED notHub
    /\ UNCHANGED <<config, hub_running, hub_started, hub_stops, sen_pc, sen_value,
                   sampled, sensor_data_queue, st_keys, st_sensors, st_top,
                   st_actuators, st_top_act, slots, ctl_pc, ctl_commands, act_pc,
                   act_state, act_queue, snap, snap_view, dequeued, folded,
                   facade_calls>>

\* stop(), lines 154-157: join the controller thread (if any) for up to
\* 5 s; the call returns with the controller ended or still in its cycle.
HubStopController ==
    /\ stop_pc[1] = "controller"
    /\ stop_pc' = <<"returned">>
    /\ UNCHANGED notHub
    /\ UNCHANGED <<config, hub_running, hub_started, hub_stops, sen_running, sen_pc,
                   sen_value, sampled, sensor_data_queue, st_keys, st_sensors, st_top,
                   st_actuators, st_top_act, slots, ctl_pc, ctl_commands, act_running,
                   act_pc, act_state, act_queue, snap, snap_view, dequeued, folded,
                   facade_calls>>

\* ------------------------------------------------------------------------
\* Sensor._run of each sensor of the hub
\* ------------------------------------------------------------------------

\* while self.is_running(): the flag is cleared, the loop ends.
SensorLoopExit(s) ==
    /\ sen_pc[s] = "check"
    /\ ~sen_running[s]
    /\ sen_pc' = [sen_pc EXCEPT ![s] = "exited"]
    /\ UNCHANGED notHub
    /\ UNCHANGED <<config, hub_running, hub_started, hub_stops, stop_pc,
                   sen_running, sen_value, sampled,
                   sensor_data_queue, st_keys, st_sensors, st_top, st_actuators,
                   st_top_act, slots, ctl_pc, ctl_commands, act_running, act_pc,
                   act_state, act_queue, snap, snap_view, dequeued, folded,
                   facade_calls>>

\* lines 75-79: the flag is set; value = self._read_sensor();
\* self._current_value = value. After MaxSamples readings the sensors are
\* left in their time.sleep(update_interval) until they are stopped.
SensorSample(s, v) ==
    /\ sen_pc[s] = "check"
    /\ sen_running[s]
    /\ sampled < MaxSamples
    /\ v \in config.samples[s]
    /\ sampled' = sampled + 1
    /\ sen_value' = [sen_value EXCEPT ![s] = v]
    /\ sen_pc' = [sen_pc EXCEPT ![s] = "send"]
    /\ UNCHANGED notHub
    /\ UNCHANGED <<config, hub_running, hub_started, hub_stops, stop_pc,
                   sen_running, sensor_data_queue, st_keys, st_sensors, st_top,
                   st_actuators, st_top_act, slots, ctl_pc, ctl_commands,
                   act_running, act_pc, act_state, act_queue, snap, snap_view,
                   dequeued, folded, facade_calls>>

\* Readings put on the channel so far.
Sent == sampled - Cardinality({s \in SensorTypes : sen_pc[s] = "send"})

\* lines 80-81: self._send_data({'value': value}); time.sleep(update_interval)
SensorPublish(s) ==
    /\ sen_pc[s] = "send"
    /\ sen_pc' = [sen_pc EXCEPT ![s] = "check"]
    /\ sensor_data_queue' = Append(sensor_data_queue, Reading(s, sen_value[s], Sent + 1))
    /\ UNCHANGED notHub
    /\ UNCHANGED <<config, hub_running, hub_started, hub_stops, stop_pc,
                   sen_running, sen_value, sampled, st_keys, st_sensors, st_top,
                   st_actuators, st_top_act, slots, ctl_pc, ctl_commands,
                   act_running, act_pc, act_state, act_queue, snap, snap_view,
                   dequeued, folded, facade_calls>>

\* ------------------------------------------------------------------------
\* The aggregate state as a heap of dicts
\* ------------------------------------------------------------------------

\* Slot objects of sensor type s that something still refers to: the dict
\* state['sensors'], a top-level key of the state, a returned snapshot.
Referenced(s, sensors, top, sn) ==
    {sensors[s], top[s], sn.top[s]} \ {0}

\* A slot dict not yet allocated.
FreshSlot(s, sensors, top, sn) ==
    CHOOSE k \in SlotRefs :
        /\ k \notin Referenced(s, sensors, top, sn)
        /\ \A j \in SlotRefs : j < k => j \in Referenced(s, sensors, top, sn)

\* Garbage collection: a slot dict nothing refers to is gone.
Collect(heap, sensors, top, sn) ==
    [s \in SensorTypes |->
        [k \in SlotRefs |->
            IF k \in Referenced(s, sensors, top, sn) THEN heap[s][k] ELSE EmptySlot(s)]]

\* What a dict reference shows: <<>> for no entry or an empty dict.
Deref(heap, s, k) == IF k = 0 THEN <<>> ELSE <<heap[s][k]>>

\* What is observable through a dict returned by self.state.copy(): the copy
\* is shallow, so 'sensors' is the live dict state['sensors'] and the slot
\* dicts are the live slot dicts; state['actuators'] is rebuilt by every
\* refresh and the dict the copy refers to is never written again.
View(sn) ==
    [keys |-> sn.keys,
     sensors |-> [s \in SensorTypes |->
                     IF "sensors" \in sn.keys THEN Deref(slots, s, st_sensors[s]) ELSE <<>>],
     top |-> [s \in SensorTypes |->
                 IF s \in sn.keys THEN Deref(slots, s, sn.top[s]) ELSE <<>>],
     actuators |-> sn.actuators,
     top_act |-> sn.top_act]

\* self.state.copy()
ShallowCopy ==
    [taken |-> TRUE, keys |-> st_keys, top |-> st_top,
     actuators |-> st_actuators, top_act |-> st_top_act]

\* get_state(): with self._state_lock: return self.state.copy()
GetState ==
    /\ hub_started
    /\ ~snap.taken
    /\ snap' = ShallowCopy
    /\ snap_view' = View(ShallowCopy)
    /\ UNCHANGED notHub
    /\ UNCHANGED <<config, hub_running, hub_started, hub_stops, stop_pc, sen_running, sen_pc, sen_value, sampled, sensor_data_queue, st_keys,
                   st_sensors, st_top, st_actuators, st_top_act, slots, ctl_pc,
                   ctl_commands, act_running, act_pc, act_state, act_queue, dequeued,
                   folded, facade_calls>>

\* ------------------------------------------------------------------------
\* SmartHub._controller_loop
\* ------------------------------------------------------------------------

\* line 160: while self._running
CtlCheck ==
    /\ ctl_pc = "top"
    /\ ctl_pc' = IF hub_running THEN "drain" ELSE "exited"
    /\ UNCHANGED notHub
    /\ UNCHANGED <<config, hub_running, hub_started, hub_stops, stop_pc, sen_running, sen_pc, sen_value, sampled, sensor_data_queue, st_keys,
                   st_sensors, st_top, st_actuators, st_top_act, slots, ctl_commands,
                   act_running, act_pc, act_state, act_queue, snap, snap_view, dequeued,
                   folded, facade_calls>>

SensorTypeOf_Unknown(id) == <<>>

\* _process_sensor_data, lines 181-185: the key of the sensor with that device_id.
SensorTypeOf(id) ==
    IF \E s \in Sensors : DeviceId(s) = id
    THEN <<CHOOSE s \in Sensors : DeviceId(s) = id>>
    ELSE <<>>

DrainOne_Single ==
    /\ ctl_pc = "drain"
    /\ sensor_data_queue # <<>>
    /\ ctl_pc' = "update"
    /\ LET data == Head(sensor_data_queue)
           r == data.timestamp
           type == SensorTypeOf(data.sensor_id)
       IN /\ sensor_data_queue' = Tail(sensor_data_queue)
          /\ dequeued' = [dequeued EXCEPT ![r] = @ + 1]
          /\ IF type = <<>>
               THEN UNCHANGED <<st_keys, st_sensors, slots, folded>>
               ELSE LET s == type[1]
                        k == FreshSlot(s, st_sensors, st_top, snap)
                        sensors == [st_sensors EXCEPT ![s] = k]
                        heap == [slots EXCEPT ![s][k] =
                                    [value |-> data.value, timestamp |-> data.timestamp]]
                    IN /\ st_keys' = st_keys \cup {"sensors"}
                       /\ st_sensors' = sensors
                       /\ slots' = Collect(heap, sensors, st_top, snap)
                       /\ folded' = [folded EXCEPT ![r] = @ + 1]
    /\ UNCHANGED notHub
    /\ UNCHANGED <<config, hub_running, hub_started, hub_stops, stop_pc, sen_running, sen_pc, sen_value, sampled, st_top, st_actuators,
                   st_top_act, ctl_commands, act_running, act_pc, act_state,
                   act_queue, snap, snap_view, facade_calls>>

\* _process_sensor_data, one turn of its loop: get_nowait(), and with the
\* state lock held a new slot dict for the sensor's type.
DrainOne ==
    /\ ctl_pc = "drain"
    /\ sensor_data_queue # <<>>
    /\ LET data == Head(sensor_data_queue)
           r == data.timestamp
           type == SensorTypeOf(data.sensor_id)
       IN /\ sensor_data_queue' = Tail(sensor_data_queue)
          /\ dequeued' = [dequeued EXCEPT ![r] = @ + 1]
          /\ IF type = <<>>
               THEN UNCHANGED <<st_keys, st_sensors, slots, folded>>
               ELSE LET s == type[1]
                        k == FreshSlot(s, st_sensors, st_top, snap)
                        sensors == [st_sensors EXCEPT ![s] = k]
                        heap == [slots EXCEPT ![s][k] =
                                    [value |-> data.value, timestamp |-> data.timestamp]]
                    IN /\ st_keys' = st_keys \cup {"sensors"}
                       /\ st_sensors' = sensors
                       /\ slots' = Collect(heap, sensors, st_top, snap)
                       /\ folded' = [folded EXCEPT ![r] = @ + 1]
    /\ UNCHANGED notHub
    /\ UNCHANGED <<config, hub_running, hub_started, hub_stops, stop_pc, sen_running, sen_pc, sen_value, sampled, st_top, st_actuators,
                   st_top_act, ctl_pc, ctl_commands, act_running, act_pc, act_state,
                   act_queue, snap, snap_view, facade_calls>>

\* _process_sensor_data, line 173: the queue is empty, the loop ends.
DrainDone ==
    /\ ctl_pc = "drain"
    /\ sensor_data_queue = <<>>
    /\ ctl_pc' = "update"
    /\ UNCHANGED notHub
    /\ UNCHANGED <<config, hub_running, hub_started, hub_stops, stop_pc, sen_running, sen_pc, sen_value, sampled, sensor_data_queue, st_keys,
                   st_sensors, st_top, st_actuators, st_top_act, slots, ctl_commands,
                   act_running, act_pc, act_state, act_queue, snap, snap_view, dequeued,
                   folded, facade_calls>>

\* _update_state, lines 203-208: the slot dicts after the loop over
\* self.sensors: a missing slot is created empty, then 'value' is written
\* into the slot dict in place.
RefreshedSensors ==
    [s \in SensorTypes |->
        IF s \in Sensors /\ st_sensors[s] = 0
        THEN FreshSlot(s, st_sensors, st_top, snap)
        ELSE st_sensors[s]]

RefreshedSlots_KeepsReading ==
    [s \in SensorTypes |->
        [k \in SlotRefs |->
            IF s \in Sensors /\ k = RefreshedSensors[s] /\ st_sensors[s] = 0
            THEN [slots[s][k] EXCEPT !.value = sen_value[s]]
            ELSE slots[s][k]]]

RefreshedSlots ==
    [s \in SensorTypes |->
        [k \in SlotRefs |->
            IF s \in Sensors /\ k = RefreshedSensors[s]
            THEN [slots[s][k] EXCEPT !.value = sen_value[s]]
            ELSE slots[s][k]]]

\* _update_state, lines 210-216: the new dict state['actuators'].
RefreshedActuators ==
    [a \in ActuatorTypes |-> IF a \in Actuators THEN <<act_state[a]>> ELSE <<>>]

TopLevelKeys ==
    {"sensors", "actuators", "temperature", "light", "motion",
     "heater", "light_actuator", "alarm"}

\* _update_state, the whole of it under the state lock.
UpdateState ==
    /\ ctl_pc = "update"
    /\ st_keys' = (IF Sensors # {} THEN TopLevelKeys ELSE TopLevelKeys \ {"sensors"})
                      \cup st_keys
    /\ st_sensors' = RefreshedSensors
    /\ st_actuators' = RefreshedActuators
    /\ st_top' = RefreshedSensors
    /\ st_top_act' = RefreshedActuators
    /\ slots' = Collect(RefreshedSlots, RefreshedSensors, RefreshedSensors, snap)
    /\ ctl_pc' = "rules"
    /\ UNCHANGED notHub
    /\ UNCHANGED <<config, hub_running, hub_started, hub_stops, stop_pc, sen_running, sen_pc, sen_value, sampled, sensor_data_queue,
                   ctl_commands, act_running, act_pc, act_state, act_queue, snap,
                   snap_view, dequeued, folded, facade_calls>>

\* ------------------------------------------------------------------------
\* RuleEngine
\* ------------------------------------------------------------------------

\* A built-in rule: its condition and action are those of _initialize_rules.
Rule(rule_id, priority) ==
    [rule_id |-> rule_id, priority |-> priority, cond |-> "builtin", act |-> "builtin"]

\* A rule added by a caller of add_rule: on the snapshot at hand its
\* condition function returns true or false or raises, its action function
\* returns its command or raises.
CustomRule(rule_id, priority, cond, act) ==
    [rule_id |-> rule_id, priority |-> priority, cond |-> cond, act |-> act]

\* _initialize_rules: the add_rule calls in the order they are made.
AddedRules ==
    <<Rule("temp_low", 1), Rule("temp_high", 1), Rule("motion_light", 2),
      Rule("no_motion_light", 3), Rule("security_alarm", 0)>>

AddRule_Unstable(rules, rule) ==
    LET n == Cardinality({i \in 1..Len(rules) : rules[i].priority < rule.priority})
    IN SubSeq(rules, 1, n) \o <<rule>> \o SubSeq(rules, n + 1, Len(rules))

\* add_rule: append, then list.sort by priority; the sort is stable, so on a
\* sorted list the new rule lands behind the rules of priority <= its own.
AddRule(rules, rule) ==
    LET n == Cardinality({i \in 1..Len(rules) : rules[i].priority <= rule.priority})
    IN SubSeq(rules, 1, n) \o <<rule>> \o SubSeq(rules, n + 1, Len(rules))

RECURSIVE AddRules(_, _)
AddRules(rules, added) ==
    IF added = <<>> THEN rules
    ELSE AddRules(AddRule(rules, Head(added)), Tail(added))

\* RuleEngine.rules after construction.
Rules == AddRules(<<>>, AddedRules)

\* dict.get(key, default) on an entry that may be missing.
Get(entry, default) == IF entry = <<>> THEN default ELSE entry[1]

\* What the conditions read of a state: state.get(k, {}).get('value') and
\* state.get(k, {}).get('state', False); <<>> stands for None.
RuleInputs(keys, top, top_act, heap) ==
    [temperature |-> IF "temperature" \in keys /\ top["temperature"] # 0
                     THEN <<heap["temperature"][top["temperature"]].value>> ELSE <<>>,
     light |-> IF "light" \in keys /\ top["light"] # 0
               THEN <<heap["light"][top["light"]].value>> ELSE <<>>,
     motion |-> IF "motion" \in keys /\ top["motion"] # 0
                THEN heap["motion"][top["motion"]].value ELSE FALSE,
     heater |-> IF "heater" \in keys THEN Get(top_act["heater"], FALSE) ELSE FALSE,
     light_actuator |-> IF "light_actuator" \in keys THEN Get(top_act["light"], FALSE)
                        ELSE FALSE,
     alarm |-> IF "alarm" \in keys THEN Get(top_act["alarm"], FALSE) ELSE FALSE]

\* The same of a snapshot given by what its entries hold: <<v>> for a value,
\* <<>> for a missing key or entry.
SnapshotInputs(state) ==
    [temperature |-> state.temperature,
     light |-> state.light,
     motion |-> Get(state.motion, FALSE),
     heater |-> Get(state.heater, FALSE),
     light_actuator |-> Get(state.light_actuator, FALSE),
     alarm |-> Get(state.alarm, FALSE)]

Condition_LowInclusive(rule_id, in) ==
    CASE rule_id = "temp_low" ->
            /\ in.temperature # <<>>
            /\ in.temperature[1] <= config.rules.temperature_threshold_low
            /\ ~in.heater
      [] rule_id = "temp_high" ->
            /\ in.temperature # <<>>
            /\ in.temperature[1] > config.rules.temperature_threshold_high
            /\ in.heater
      [] rule_id = "motion_light" ->
            /\ in.motion
            /\ in.light # <<>>
            /\ in.light[1] < config.rules.light_threshold_low
            /\ ~in.light_actuator
      [] rule_id = "no_motion_light" -> ~in.motion /\ in.light_actuator
      [] rule_id = "security_alarm" ->
            in.motion /\ ~config.rules.home_occupied /\ ~in.alarm

Condition_HighIgnoresHeater(rule_id, in) ==
    CASE rule_id = "temp_low" ->
            /\ in.temperature # <<>>
            /\ in.temperature[1] < config.rules.temperature_threshold_low
            /\ ~in.heater
      [] rule_id = "temp_high" ->
            /\ in.temperature # <<>>
            /\ in.temperature[1] > config.rules.temperature_threshold_high
      [] rule_id = "motion_light" ->
            /\ in.motion
            /\ in.light # <<>>
            /\ in.light[1] < config.rules.light_threshold_low
            /\ ~in.light_actuator
      [] rule_id = "no_motion_light" -> ~in.motion /\ in.light_actuator
      [] rule_id = "security_alarm" ->
            in.motion /\ ~config.rules.home_occupied /\ ~in.alarm

Condition_LightIgnoresMotion(rule_id, in) ==
    CASE rule_id = "temp_low" ->
            /\ in.temperature # <<>>
            /\ in.temperature[1] < config.rules.temperature_threshold_low
            /\ ~in.heater
      [] rule_id = "temp_high" ->
            /\ in.temperature # <<>>
            /\ in.temperature[1] > config.rules.temperature_threshold_high
            /\ in.heater
      [] rule_id = "motion_light" ->
            /\ in.light # <<>>
            /\ in.light[1] < config.rules.light_threshold_low
            /\ ~in.light_actuator
      [] rule_id = "no_motion_light" -> ~in.motion /\ in.light_actuator
      [] rule_id = "security_alarm" ->
            in.motion /\ ~config.rules.home_occupied /\ ~in.alarm

Condition_AlarmIgnoresState(rule_id, in) ==
    CASE rule_id = "temp_low" ->
            /\ in.temperature # <<>>
            /\ in.temperature[1] < config.rules.temperature_threshold_low
            /\ ~in.heater
      [] rule_id = "temp_high" ->
            /\ in.temperature # <<>>
            /\ in.temperature[1] > config.rules.temperature_threshold_high
            /\ in.heater
      [] rule_id = "motion_light" ->
            /\ in.motion
            /\ in.light # <<>>
            /\ in.light[1] < config.rules.light_threshold_low
            /\ ~in.light_actuator
      [] rule_id = "no_motion_light" -> ~in.motion /\ in.light_actuator
      [] rule_id = "security_alarm" -> in.motion /\ ~config.rules.home_occupied

Condition_HighCopiesLow(rule_id, in) ==
    CASE rule_id = "temp_low" ->
            /\ in.temperature # <<>>
            /\ in.temperature[1] < config.rules.temperature_threshold_low
            /\ ~in.heater
      [] rule_id = "temp_high" ->
            /\ in.temperature # <<>>
            /\ in.temperature[1] < config.rules.temperature_threshold_high
            /\ ~in.heater
      [] rule_id = "motion_light" ->
            /\ in.motion
            /\ in.light # <<>>
            /\ in.light[1] < config.rules.light_threshold_low
            /\ ~in.light_actuator
      [] rule_id = "no_motion_light" -> ~in.motion /\ in.light_actuator
      [] rule_id = "security_alarm" ->
            in.motion /\ ~config.rules.home_occupied /\ ~in.alarm

\* The condition functions of _initialize_rules.
Condition(rule_id, in) ==
    CASE rule_id = "temp_low" ->
            /\ in.temperature # <<>>
            /\ in.temperature[1] < config.rules.temperature_threshold_low
            /\ ~in.heater
      [] rule_id = "temp_high" ->
            /\ in.temperature # <<>>
            /\ in.temperature[1] > config.rules.temperature_threshold_high
            /\ in.heater
      [] rule_id = "motion_light" ->
            /\ in.motion
            /\ in.light # <<>>
            /\ in.light[1] < config.rules.light_threshold_low
            /\ ~in.light_actuator
      [] rule_id = "no_motion_light" -> ~in.motion /\ in.light_actuator
      [] rule_id = "security_alarm" ->
            in.motion /\ ~config.rules.home_occupied /\ ~in.alarm

HubCommand(actuator, action) == [actuator |-> actuator, action |-> action]

\* The action functions of _initialize_rules.
Action(rule_id) ==
    CASE rule_id = "temp_low" -> <<HubCommand("heater", "turn_on")>>
      [] rule_id = "temp_high" -> <<HubCommand("heater", "turn_off")>>
      [] rule_id = "motion_light" -> <<HubCommand("light", "turn_on")>>
      [] rule_id = "no_motion_light" -> <<HubCommand("light", "turn_off")>>
      [] rule_id = "security_alarm" -> <<HubCommand("alarm", "activate")>>

\* rule.condition_func(state): "true", "false", or "raises".
ConditionOutcome(rule, in) ==
    IF rule.cond = "builtin"
    THEN (IF Condition(rule.rule_id, in) THEN "true" ELSE "false")
    ELSE rule.cond

\* rule.action_func(state), when it returns: a custom rule's one command is
\* addressed to an actuator named after the rule.
ActionCommands(rule) ==
    IF rule.act = "builtin" THEN Action(rule.rule_id)
    ELSE <<HubCommand(rule.rule_id, "turn_on")>>

RuleEvaluate_NoCatch(rule, in) == ConditionOutcome(rule, in)

RuleEvaluate_Once(rule, in) ==
    IF eng_last[rule.rule_id] # 0 \/ rule.cond = "raises" THEN "false"
    ELSE ConditionOutcome(rule, in)

\* Rule.evaluate: the condition's value; an exception is logged and gives False.
RuleEvaluate(rule, in) ==
    IF rule.cond = "raises" THEN "false" ELSE ConditionOutcome(rule, in)

\* Rule.execute: last_triggered = now, then the action's commands; an
\* exception of the action is logged and gives [].
RuleExecute(rule) ==
    [stamped |-> TRUE,
     commands |-> IF rule.act = "raises" THEN <<>> ELSE ActionCommands(rule)]

Remaining_ShortCircuit(rules, fired) == IF fired THEN <<>> ELSE Tail(rules)

\* evaluate_rules, line 116: the for loop goes on with the next rule,
\* whether or not this one fired.
Remaining(rules, fired) == Tail(rules)

\* evaluate_rules: the commands of the rules that hold, in list order.
RECURSIVE EvaluateRules(_, _)
EvaluateRules(rules, in) ==
    IF rules = <<>> THEN <<>>
    ELSE (IF RuleEvaluate(Head(rules), in) = "true" THEN RuleExecute(Head(rules)).commands
          ELSE <<>>)
             \o EvaluateRules(Remaining(rules, RuleEvaluate(Head(rules), in) = "true"), in)

\* evaluate_rules as seen from outside, one turn of the for loop per rule:
\* the rule evaluated, whether its execute was called, and whether an
\* exception left the loop there.
RECURSIVE RunRules(_, _)
RunRules(rules, in) ==
    IF rules = <<>> THEN <<>>
    ELSE <<[rule_id |-> Head(rules).rule_id,
            fired |-> /\ RuleEvaluate(Head(rules), in) = "true"
                      /\ RuleExecute(Head(rules)).stamped,
            raised |-> RuleEvaluate(Head(rules), in) = "raises"]>>
         \o (IF RuleEvaluate(Head(rules), in) = "raises" THEN <<>>
             ELSE RunRules(Remaining(rules, RuleEvaluate(Head(rules), in) = "true"), in))

\* _evaluate_and_execute_rules, lines 226-229: copy the state under the
\* lock, evaluate the rules on the copy.
CtlEvaluate ==
    /\ ctl_pc = "rules"
    /\ ctl_pc' = "route"
    /\ ctl_commands' = EvaluateRules(Rules, RuleInputs(st_keys, st_top, st_top_act, slots))
    /\ UNCHANGED notHub
    /\ UNCHANGED <<config, hub_running, hub_started, hub_stops, stop_pc, sen_running, sen_pc, sen_value, sampled, sensor_data_queue, st_keys,
                   st_sensors, st_top, st_actuators, st_top_act, slots, act_running,
                   act_pc, act_state, act_queue, snap, snap_view, dequeued, folded,
                   facade_calls>>

Registered_Any(name) == name \in ActuatorTypes

Registered_None(name) == FALSE

\* name in self.actuator_command_queues: a queue is created for each
\* actuator the hub installs, and for no other name.
Registered(name) == name \in Actuators

\* lines 231-234: route the next command of the cycle to its actuator's
\* queue; a command for an actuator the hub does not have is skipped.
CtlRoute ==
    /\ ctl_pc = "route"
    /\ ctl_commands # <<>>
    /\ LET command == Head(ctl_commands)
           a == command.actuator
       IN IF Registered(a)
          THEN /\ Len(act_queue[a]) < MaxQueue
               /\ act_queue' = [act_queue EXCEPT ![a] = Append(@, command)]
          ELSE UNCHANGED act_queue
    /\ ctl_commands' = Tail(ctl_commands)
    /\ UNCHANGED notHub
    /\ UNCHANGED <<config, hub_running, hub_started, hub_stops, stop_pc, sen_running, sen_pc, sen_value, sampled, sensor_data_queue, st_keys,
                   st_sensors, st_top, st_actuators, st_top_act, slots, ctl_pc,
                   act_running, act_pc, act_state, snap, snap_view, dequeued, folded,
                   facade_calls>>

\* lines 165-166 and 160: _simulate_device_interactions() writes only the
\* sensors' simulation inputs; time.sleep(0.5); while self._running.
CtlSimulate ==
    /\ ctl_pc = "route"
    /\ ctl_commands = <<>>
    /\ ctl_pc' = IF hub_running THEN "drain" ELSE "exited"
    /\ UNCHANGED notHub
    /\ UNCHANGED <<config, hub_running, hub_started, hub_stops, stop_pc,
                   sen_running, sen_pc, sen_value, sampled,
                   sensor_data_queue, st_keys, st_sensors, st_top, st_actuators,
                   st_top_act, slots, ctl_commands, act_running, act_pc,
                   act_state, act_queue, snap, snap_view, dequeued, folded,
                   facade_calls>>

\* ------------------------------------------------------------------------
\* Actuator._run of each actuator of the hub, and the dashboard
\* ------------------------------------------------------------------------

\* while self.is_running(): the flag is cleared, the loop ends.
ActLoopExit(a) ==
    /\ act_pc[a] = "check"
    /\ ~act_running[a]
    /\ act_pc' = [act_pc EXCEPT ![a] = "exited"]
    /\ UNCHANGED notHub
    /\ UNCHANGED <<config, hub_running, hub_started, hub_stops, stop_pc,
                   sen_running, sen_pc, sen_value, sampled,
                   sensor_data_queue, st_keys, st_sensors, st_top, st_actuators,
                   st_top_act, slots, ctl_pc, ctl_commands, act_running,
                   act_state, act_queue, snap, snap_view, dequeued, folded,
                   facade_calls>>

\* The state an actuator is in after _execute_command.
Executed(a, command) ==
    LET what == ExecuteCommand(a, Command(command.action, "none", "none"))
    IN CASE what = "set_true" -> TRUE
         [] what = "set_false" -> FALSE
         [] what = "toggle" -> ~act_state[a]
         [] OTHER -> act_state[a]

\* lines 116-120: the flag is set and the queue holds a command: take it and
\* execute it. (On an empty queue the turn is a time.sleep(0.1).)
ActLoopWork(a) ==
    /\ act_pc[a] = "check"
    /\ act_running[a]
    /\ act_queue[a] # <<>>
    /\ act_queue' = [act_queue EXCEPT ![a] = Tail(@)]
    /\ act_state' = [act_state EXCEPT ![a] = Executed(a, Head(act_queue[a]))]
    /\ UNCHANGED notHub
    /\ UNCHANGED <<config, hub_running, hub_started, hub_stops, stop_pc,
                   sen_running, sen_pc, sen_value, sampled,
                   sensor_data_queue, st_keys, st_sensors, st_top, st_actuators,
                   st_top_act, slots, ctl_pc, ctl_commands, act_running, act_pc,
                   snap, snap_view, dequeued, folded, facade_calls>>

\* Actuator names a dashboard request can carry; "fan" is not a device of the hub.
RequestNames == ActuatorTypes \cup {"fan"}

RequestActions == {"toggle"}

ControlActuator_WritesState(name, action) ==
    /\ hub_started
    /\ facade_calls < MaxFacade
    /\ facade_calls' = facade_calls + 1
    /\ requested' = name
    /\ IF Registered(name)
       THEN /\ act_state' = [act_state EXCEPT ![name] = Executed(name, HubCommand(name, action))]
            /\ response' = 200
       ELSE /\ UNCHANGED act_state
            /\ response' = 404
    /\ UNCHANGED notWeb
    /\ UNCHANGED <<config, hub_running, hub_started, hub_stops, stop_pc, sen_running, sen_pc, sen_value, sampled, sensor_data_queue, st_keys,
                   st_sensors, st_top, st_actuators, st_top_act, slots, ctl_pc,
                   ctl_commands, act_running, act_pc, act_queue, snap, snap_view,
                   dequeued, folded>>

\* POST /api/actuator/<name>: 404 for a name without a queue, else the
\* command goes on that actuator's queue.
ControlActuator(name, action) ==
    /\ hub_started
    /\ facade_calls < MaxFacade
    /\ facade_calls' = facade_calls + 1
    /\ requested' = name
    /\ IF Registered(name)
       THEN /\ Len(act_queue[name]) < MaxQueue
            /\ act_queue' = [act_queue EXCEPT ![name] = Append(@, HubCommand(name, action))]
            /\ response' = 200
       ELSE /\ UNCHANGED act_queue
            /\ response' = 404
    /\ UNCHANGED notWeb
    /\ UNCHANGED <<config, hub_running, hub_started, hub_stops, stop_pc, sen_running, sen_pc, sen_value, sampled, sensor_data_queue, st_keys,
                   st_sensors, st_top, st_actuators, st_top_act, slots, ctl_pc,
                   ctl_commands, act_running, act_pc, act_state, snap, snap_view,
                   dequeued, folded>>

\* The steps of the controller thread.
CtlStep == CtlCheck \/ DrainOne \/ DrainDone \/ UpdateState \/ CtlEvaluate \/ CtlRoute \/ CtlSimulate

\* The steps of one sensor loop.
SensorStep(s) ==
    \/ SensorLoopExit(s)
    \/ \E v \in SensorValues(s) : SensorSample(s, v)
    \/ SensorPublish(s)

\* The steps of one actuator loop.
ActuatorStep(a) == ActLoopExit(a) \/ ActLoopWork(a)

\* The hub: the main thread starting and stopping it, and its threads.
HubNext ==
    \/ HubStart
    \/ HubStopBegin
    \/ HubStopDevice
    \/ HubStopController
    \/ \E s \in SensorTypes : SensorLoopExit(s)
    \/ \E s \in SensorTypes : \E v \in SensorValues(s) : SensorSample(s, v)
    \/ \E s \in SensorTypes : SensorPublish(s)
    \/ CtlCheck
    \/ DrainOne
    \/ DrainDone
    \/ UpdateState
    \/ CtlEvaluate
    \/ CtlRoute
    \/ CtlSimulate
    \/ \E a \in ActuatorTypes : ActLoopExit(a)
    \/ \E a \in ActuatorTypes : ActLoopWork(a)

\* The hub together with the dashboard's requests.
DashNext ==
    \/ HubNext
    \/ GetState
    \/ \E name \in RequestNames, action \in RequestActions : ControlActuator(name, action)

\* ========================================================================
\* The rule engine on its own: add_rule and evaluate_rules
\* ========================================================================

\* add_rule calls made by callers of the engine after construction.
MaxAdded == 2

\* evaluate_rules calls.
MaxRuns == 2

CustomPriorities == {1, 2}
CustomConditions == {"true", "false", "raises"}
CustomActions == {"returns", "raises"}

CustomId(n) == "custom_" \o ToString(n)

RuleIds ==
    {AddedRules[i].rule_id : i \in 1..Len(AddedRules)} \cup {CustomId(n) : n \in 1..(MaxAdded + 1)}

\* A snapshot by what each of its entries holds (<<>>: key or field missing).
Snapshot(temperature, light, motion, heater, light_actuator, alarm) ==
    [temperature |-> temperature, light |-> light, motion |-> motion,
     heater |-> heater, light_actuator |-> light_actuator, alarm |-> alarm]

Option(S) == {<<>>} \cup {<<v>> : v \in S}

Temperatures == {15, 18, 20, 22, 23}
LightLevels == {20, 30, 50}

Snapshots ==
    [temperature : Option(Temperatures), light : Option(LightLevels),
     motion : Option(BOOLEAN), heater : Option(BOOLEAN),
     light_actuator : Option(BOOLEAN), alarm : Option(BOOLEAN)]

\* A cold dark room with somebody moving, and a warm lit room left empty.
ColdDarkRoom == Snapshot(<<15>>, <<20>>, <<TRUE>>, <<FALSE>>, <<FALSE>>, <<FALSE>>)
WarmLitRoom == Snapshot(<<23>>, <<50>>, <<FALSE>>, <<TRUE>>, <<TRUE>>, <<FALSE>>)
EngSnapshots == {ColdDarkRoom, WarmLitRoom}

\* A cold empty home with a heater and no alarm: the security rule names an
\* actuator the hub has not.
MixedHome == Config({"temperature", "motion"}, {"heater"}, FALSE)

\* The configuration the engine is built with: only its rules part is read.
AwayHome == Config({"motion"}, {"alarm"}, FALSE)
OccupiedHome == Config({"motion"}, {"alarm"}, TRUE)

\* RuleEngine.__init__: the built-in rules, none triggered yet.
EngConstructed ==
    /\ eng_rules = Rules
    /\ eng_added = [i \in 1..Len(AddedRules) |-> AddedRules[i].rule_id]
    /\ eng_last = [id \in RuleIds |-> 0]
    /\ eng_now = 0
    /\ eng_result = <<>>
    /\ eng_prev = <<>>
    /\ eng_before = [id \in RuleIds |-> 0]
    /\ eng_raised = FALSE
    /\ eng_visited = <<>>

EngIdle == EngConstructed /\ eng_state = ColdDarkRoom

\* add_rule called with a new rule; results observed so far were of the
\* list as it was.
EngAddRule(priority, cond, act) ==
    /\ Len(eng_added) - Len(AddedRules) < MaxAdded
    /\ LET rule == CustomRule(CustomId(Len(eng_added) - Len(AddedRules) + 1),
                              priority, cond, act)
       IN /\ eng_rules' = AddRule(eng_rules, rule)
          /\ eng_added' = Append(eng_added, rule.rule_id)
    /\ eng_result' = <<>>
    /\ eng_prev' = <<>>
    /\ eng_visited' = <<>>
    /\ UNCHANGED <<eng_state, eng_last, eng_now, eng_before, eng_raised>>
    /\ UNCHANGED notEng

SeqRange(s) == {s[i] : i \in 1..Len(s)}

\* evaluate_rules(state) called on the snapshot.
EngEvaluate ==
    /\ eng_now < MaxRuns
    /\ \E turns \in {RunRules(eng_rules, SnapshotInputs(eng_state))} :
       \E left \in {\E i \in 1..Len(turns) : turns[i].raised} :
          /\ eng_last' = [id \in RuleIds |->
                             IF \E i \in 1..Len(turns) :
                                    turns[i].rule_id = id /\ turns[i].fired
                             THEN eng_now + 1
                             ELSE eng_last[id]]
          /\ eng_raised' = left
          /\ eng_result' = IF left THEN <<>>
                           ELSE <<EvaluateRules(eng_rules, SnapshotInputs(eng_state))>>
          /\ eng_visited' = [i \in 1..Len(turns) |-> turns[i].rule_id]
    /\ eng_now' = eng_now + 1
    /\ eng_before' = eng_last
    /\ eng_prev' = eng_result
    /\ UNCHANGED <<eng_state, eng_rules, eng_added>>
    /\ UNCHANGED notEng

EngNext ==
    \/ \E priority \in CustomPriorities, cond \in CustomConditions, act \in CustomActions :
           EngAddRule(priority, cond, act)
    \/ EngEvaluate

\* ========================================================================
\* SmartHub.stop(), each join told apart from its timeout
\* ========================================================================

\* SmartHub.stop() calls when the joins are told apart.
MaxStopCalls == 2

\* The thread of the device at index i of the stop order has been started
\* and has not ended.
DeviceAlive(i) ==
    IF IsSensorIndex(i)
    THEN sen_pc[StopOrder[i]] \notin {"unborn", "exited"}
    ELSE act_pc[StopOrder[i]] \notin {"unborn", "exited"}

\* The controller thread has been started and has not ended.
ControllerAlive == ctl_pc \notin {"unborn", "exited"}

\* stop(), lines 145-146: self._running = False
StopBegin ==
    /\ stop_pc[1] \in {"idle", "returned"}
    /\ hub_stops < MaxStopCalls
    /\ hub_stops' = hub_stops + 1
    /\ hub_running' = FALSE
    /\ stop_pc' = IF Len(StopOrder) > 0 THEN <<"device", 1>> ELSE <<"controller">>
    /\ UNCHANGED <<notStop, timed_out>>
    /\ UNCHANGED <<config, hub_started, sen_running, sen_pc, sen_value,
                   sampled, sensor_data_queue, st_keys, st_sensors, st_top,
                   st_actuators, st_top_act, slots, ctl_pc, ctl_commands,
                   act_running, act_pc, act_state, act_queue, snap, snap_view,
                   dequeued, folded, facade_calls>>

\* Device.stop() of the next device, lines 35-36: clear its flag under its lock.
StopDeviceFlag ==
    /\ stop_pc[1] = "device"
    /\ IF IsSensorIndex(stop_pc[2])
       THEN /\ sen_running' = [sen_running EXCEPT ![StopOrder[stop_pc[2]]] = FALSE]
            /\ UNCHANGED act_running
       ELSE /\ act_running' = [act_running EXCEPT ![StopOrder[stop_pc[2]]] = FALSE]
            /\ UNCHANGED sen_running
    /\ stop_pc' = <<"join", stop_pc[2]>>
    /\ UNCHANGED <<notStop, timed_out>>
    /\ UNCHANGED <<config, hub_running, hub_started, hub_stops, sen_pc,
                   sen_value, sampled, sensor_data_queue, st_keys, st_sensors,
                   st_top, st_actuators, st_top_act, slots, ctl_pc,
                   ctl_commands, act_pc, act_state, act_queue, snap, snap_view,
                   dequeued, folded, facade_calls>>

\* Device.stop(), lines 37-39: no thread, or the join returns because the
\* thread has ended.
StopDeviceJoined ==
    /\ stop_pc[1] = "join"
    /\ ~DeviceAlive(stop_pc[2])
    /\ stop_pc' = AfterDevice(stop_pc[2])
    /\ UNCHANGED <<notStop, timed_out>>
    /\ UNCHANGED <<config, hub_running, hub_started, hub_stops, sen_running,
                   sen_pc, sen_value, sampled, sensor_data_queue, st_keys,
                   st_sensors, st_top, st_actuators, st_top_act, slots, ctl_pc,
                   ctl_commands, act_running, act_pc, act_state, act_queue,
                   snap, snap_view, dequeued, folded, facade_calls>>

\* Device.stop(), lines 37-39: the 5 s of the join are over and the thread
\* has not ended.
StopDeviceTimeout ==
    /\ stop_pc[1] = "join"
    /\ DeviceAlive(stop_pc[2])
    /\ timed_out' = TRUE
    /\ stop_pc' = AfterDevice(stop_pc[2])
    /\ UNCHANGED notStop
    /\ UNCHANGED <<config, hub_running, hub_started, hub_stops, sen_running,
                   sen_pc, sen_value, sampled, sensor_data_queue, st_keys,
                   st_sensors, st_top, st_actuators, st_top_act, slots, ctl_pc,
                   ctl_commands, act_running, act_pc, act_state, act_queue,
                   snap, snap_view, dequeued, folded, facade_calls>>

StopControllerJoined_NoWait ==
    /\ stop_pc[1] = "controller"
    /\ stop_pc' = <<"returned">>
    /\ UNCHANGED <<notStop, timed_out>>
    /\ UNCHANGED <<config, hub_running, hub_started, hub_stops, sen_running,
                   sen_pc, sen_value, sampled, sensor_data_queue, st_keys,
                   st_sensors, st_top, st_actuators, st_top_act, slots, ctl_pc,
                   ctl_commands, act_running, act_pc, act_state, act_queue,
                   snap, snap_view, dequeued, folded, facade_calls>>

\* stop(), lines 154-157: no controller thread, or the join returns because
\* the controller has ended.
StopControllerJoined ==
    /\ stop_pc[1] = "controller"
    /\ ~ControllerAlive
    /\ stop_pc' = <<"returned">>
    /\ UNCHANGED <<notStop, timed_out>>
    /\ UNCHANGED <<config, hub_running, hub_started, hub_stops, sen_running,
                   sen_pc, sen_value, sampled, sensor_data_queue, st_keys,
                   st_sensors, st_top, st_actuators, st_top_act, slots, ctl_pc,
                   ctl_commands, act_running, act_pc, act_state, act_queue,
                   snap, snap_view, dequeued, folded, facade_calls>>

\* stop(), lines 154-157: the 5 s of the join are over and the controller
\* is still in its cycle.
StopControllerTimeout ==
    /\ stop_pc[1] = "controller"
    /\ ControllerAlive
    /\ timed_out' = TRUE
    /\ stop_pc' = <<"returned">>
    /\ UNCHANGED notStop
    /\ UNCHANGED <<config, hub_running, hub_started, hub_stops, sen_running,
                   sen_pc, sen_value, sampled, sensor_data_queue, st_keys,
                   st_sensors, st_top, st_actuators, st_top_act, slots, ctl_pc,
                   ctl_commands, act_running, act_pc, act_state, act_queue,
                   snap, snap_view, dequeued, folded, facade_calls>>

\* The hub, the main thread starting it and calling stop() on it.
StopNext ==
    \/ HubStart
    \/ StopBegin
    \/ StopDeviceFlag
    \/ StopDeviceJoined
    \/ StopDeviceTimeout
    \/ StopControllerJoined
    \/ StopControllerTimeout
    \/ \E s \in SensorTypes : SensorLoopExit(s)
    \/ \E s \in SensorTypes : \E v \in SensorValues(s) : SensorSample(s, v)
    \/ \E s \in SensorTypes : SensorPublish(s)
    \/ CtlCheck
    \/ DrainOne
    \/ DrainDone
    \/ UpdateState
    \/ CtlEvaluate
    \/ CtlRoute
    \/ CtlSimulate
    \/ \E a \in ActuatorTypes : ActLoopExit(a)
    \/ \E a \in ActuatorTypes : ActLoopWork(a)

\* ========================================================================
\* The away-mode hub (src/smart_hub.py): motion rule and set_away_mode
\* ========================================================================

\* Motion readings the processing thread takes off the queue.
MaxMotion == 3

\* set_away_mode calls.
MaxToggles == 3

\* _process_sensor_data, lines 84-101: a "Motion" reading is taken off the
\* queue; _apply_motion_rules, lines 142-145, tests motion_detected first.
ProcGet(motion_detected) ==
    /\ proc_pc = "get"
    /\ motions < MaxMotion
    /\ motions' = motions + 1
    /\ proc_pc' = IF motion_detected THEN "away" ELSE "get"
    /\ UNCHANGED <<away_mode, alarm_status, alert_count, away_pc, toggles>>
    /\ UNCHANGED notAway

\* line 145: ... and self.away_mode
ProcAway ==
    /\ proc_pc = "away"
    /\ proc_pc' = IF away_mode THEN "alarm" ELSE "get"
    /\ UNCHANGED <<away_mode, alarm_status, alert_count, motions, away_pc, toggles>>
    /\ UNCHANGED notAway

\* line 145: ... and not self.alarm_actuator.is_on()
ProcAlarm ==
    /\ proc_pc = "alarm"
    /\ proc_pc' = IF alarm_status THEN "get" ELSE "trigger"
    /\ UNCHANGED <<away_mode, alarm_status, alert_count, motions, away_pc, toggles>>
    /\ UNCHANGED notAway

\* line 146: self.alarm_actuator.trigger()
ProcTrigger ==
    /\ proc_pc = "trigger"
    /\ alarm_status' = TRUE
    /\ alert_count' = alert_count + 1
    /\ proc_pc' = "get"
    /\ UNCHANGED <<away_mode, motions, away_pc, toggles>>
    /\ UNCHANGED notAway

\* set_away_mode, lines 151-155: self.away_mode = enabled
SetAwayMode(on) ==
    /\ away_pc = "idle"
    /\ toggles < MaxToggles
    /\ toggles' = toggles + 1
    /\ away_mode' = on
    /\ away_pc' = IF on THEN "idle" ELSE "check"
    /\ UNCHANGED <<alarm_status, alert_count, proc_pc, motions>>
    /\ UNCHANGED notAway

\* line 156: if self.alarm_actuator.is_on()
SetAwayCheck ==
    /\ away_pc = "check"
    /\ away_pc' = IF alarm_status THEN "reset" ELSE "idle"
    /\ UNCHANGED <<away_mode, alarm_status, alert_count, proc_pc, motions, toggles>>
    /\ UNCHANGED notAway

\* line 157: self.alarm_actuator.reset()
SetAwayReset ==
    /\ away_pc = "reset"
    /\ alarm_status' = FALSE
    /\ away_pc' = "idle"
    /\ UNCHANGED <<away_mode, alert_count, proc_pc, motions, toggles>>
    /\ UNCHANGED notAway

\* The processing thread and the thread of the /api/away_mode requests.
AwayNext ==
    \/ \E motion_detected \in BOOLEAN : ProcGet(motion_detected)
    \/ ProcAway
    \/ ProcAlarm
    \/ ProcTrigger
    \/ \E on \in BOOLEAN : SetAwayMode(on)
    \/ SetAwayCheck
    \/ SetAwayReset

\* ========================================================================
\* SmartHub._controller_loop with a step that raises
\* ========================================================================

\* Exceptions raised by the steps of the controller's cycles.
MaxFaults == 1

\* The steps of one cycle: _process_sensor_data, _update_state,
\* _evaluate_and_execute_rules (evaluation, then routing) and
\* _simulate_device_interactions (at "route" with nothing left to route).
CycleSteps == {"drain", "update", "rules", "route"}

CtlRaise_Uncaught ==
    /\ ctl_pc \in CycleSteps
    /\ ctl_faults < MaxFaults
    /\ ctl_faults' = ctl_faults + 1
    /\ ctl_commands' = <<>>
    /\ ctl_pc' = "exited"
    /\ UNCHANGED <<notFault, sen_faults>>
    /\ UNCHANGED <<config, hub_running, hub_started, hub_stops, stop_pc,
                   sen_running, sen_pc, sen_value, sampled, sensor_data_queue,
                   st_keys, st_sensors, st_top, st_actuators, st_top_act,
                   slots, act_running, act_pc, act_state, act_queue, snap,
                   snap_view, dequeued, folded, facade_calls>>

\* lines 161-170: the step the cycle is at raises an Exception; the rest of
\* the try block is left (the commands not yet routed are gone with the
\* frame), the handler logs, sleeps 1 s and the while test comes next.
CtlRaise ==
    /\ ctl_pc \in CycleSteps
    /\ ctl_faults < MaxFaults
    /\ ctl_faults' = ctl_faults + 1
    /\ ctl_commands' = <<>>
    /\ ctl_pc' = "top"
    /\ UNCHANGED <<notFault, sen_faults>>
    /\ UNCHANGED <<config, hub_running, hub_started, hub_stops, stop_pc,
                   sen_running, sen_pc, sen_value, sampled, sensor_data_queue,
                   st_keys, st_sensors, st_top, st_actuators, st_top_act,
                   slots, act_running, act_pc, act_state, act_queue, snap,
                   snap_view, dequeued, folded, facade_calls>>

SensorSampleFails_Dies(s) ==
    /\ sen_pc[s] = "check"
    /\ sen_running[s]
    /\ sen_faults < MaxFaults
    /\ sen_faults' = sen_faults + 1
    /\ sen_pc' = [sen_pc EXCEPT ![s] = "exited"]
    /\ UNCHANGED <<notFault, ctl_faults>>
    /\ UNCHANGED <<config, hub_running, hub_started, hub_stops, stop_pc, sen_running,
                   sen_value, sampled, sensor_data_queue, st_keys, st_sensors,
                   st_top, st_actuators, st_top_act, slots, ctl_pc, ctl_commands,
                   act_running, act_pc, act_state, act_queue, snap, snap_view,
                   dequeued, folded, facade_calls>>

\* Sensor._run, lines 75-77 and 82-84: the flag is set, _read_sensor()
\* raises an Exception: neither the assignment of line 79 nor _send_data is
\* reached; the handler logs, sleeps update_interval and the while test
\* comes next.
SensorSampleFails(s) ==
    /\ sen_pc[s] = "check"
    /\ sen_running[s]
    /\ sen_faults < MaxFaults
    /\ sen_faults' = sen_faults + 1
    /\ UNCHANGED <<notFault, hubVars, ctl_faults>>

\* The hub with a controller and sensors whose steps may raise.
FaultNext ==
    \/ HubStart
    \/ HubStopBegin
    \/ HubStopDevice
    \/ HubStopController
    \/ \E s \in SensorTypes : SensorLoopExit(s)
    \/ \E s \in SensorTypes : \E v \in SensorValues(s) : SensorSample(s, v)
    \/ \E s \in SensorTypes : SensorPublish(s)
    \/ CtlCheck
    \/ DrainOne
    \/ DrainDone
    \/ UpdateState
    \/ CtlEvaluate
    \/ CtlRoute
    \/ CtlSimulate
    \/ CtlRaise
    \/ \E s \in SensorTypes : SensorSampleFails(s)
    \/ \E a \in ActuatorTypes : ActLoopExit(a)
    \/ \E a \in ActuatorTypes : ActLoopWork(a)

\* ========================================================================
\* The locks: who takes which lock, in which order
\* ========================================================================

\* One lock operation of a thread.
Acq(l) == <<"acquire", l>>
Rel(l) == <<"release", l>>
Clear(f) == <<"clear", f>>
Test(f) == <<"test", f>>
Join(t) == <<"join", t>>

\* with lock: ... with nothing but reads and writes inside.
With(l) == <<Acq(l), Rel(l)>>

Programs_NotifyUnderStateLock ==
    [t \in LockThreads |->
    CASE t = "controller" ->
           <<Test("hub")>> \o With("state")
             \o <<Acq("state")>> \o With("temperature") \o With("heater") \o <<Rel("state")>>
             \o With("state") \o With("heater")
      [] t = "sensor" ->
           With("temperature") \o <<Test("temperature")>>
             \o <<Acq("temperature")>> \o With("state") \o <<Rel("temperature")>>
      [] t = "actuator" ->
           With("heater") \o <<Test("heater")>> \o With("heater") \o With("heater")
      [] t = "web" ->
           With("state") \o With("state")
             \o With("temperature") \o With("temperature")
             \o With("heater") \o With("heater")
      [] t = "main" ->
           <<Clear("hub")>>
             \o <<Acq("temperature"), Clear("temperature"), Rel("temperature"), Join("sensor")>>
             \o <<Acq("heater"), Clear("heater"), Rel("heater"), Join("actuator")>>
             \o <<Join("controller")>>]

\* The lock operations of each thread, in program order.
\*   controller: _controller_loop: while self._running; _process_sensor_data
\*     (state lock); _update_state (state lock, inside it get_current_value
\*     and get_state under the device locks); _evaluate_and_execute_rules
\*     (state lock); _simulate_device_interactions (is_on: device lock).
\*   sensor: Sensor._run: is_running() (device lock); _read_sensor; the
\*     assignment of _current_value (device lock); _send_data.
\*   actuator: Actuator._run: is_running(); a toggle command: get_state(),
\*     then set_state() with its notification, each under the device lock.
\*   web: get_state() (state lock); get_status(): get_state(), then
\*     get_current_value(), is_running(), get_state(), is_running().
\*   main: SmartHub.stop(): the hub flag; each Device.stop(): the flag under
\*     the device lock, the join outside it; the join of the controller.
Programs ==
    [t \in LockThreads |->
    CASE t = "controller" ->
           <<Test("hub")>> \o With("state")
             \o <<Acq("state")>> \o With("temperature") \o With("heater") \o <<Rel("state")>>
             \o With("state") \o With("heater")
      [] t = "sensor" ->
           With("temperature") \o <<Test("temperature")>> \o With("temperature")
      [] t = "actuator" ->
           With("heater") \o <<Test("heater")>> \o With("heater") \o With("heater")
      [] t = "web" ->
           With("state") \o With("state")
             \o With("temperature") \o With("temperature")
             \o With("heater") \o With("heater")
      [] t = "main" ->
           <<Clear("hub")>>
             \o <<Acq("temperature"), Clear("temperature"), Rel("temperature"), Join("sensor")>>
             \o <<Acq("heater"), Clear("heater"), Rel("heater"), Join("actuator")>>
             \o <<Join("controller")>>]

\* The lock operations of one thread.
Program(t) == Programs[t]

\* The threads that run their program again and again.
Loops == {"controller", "sensor", "actuator", "web"}

\* The thread has been started and has not ended.
Live(t) == lk_pc[t] \in 1..Len(Program(t))

\* The operation the thread is at.
Op(t) == Program(t)[lk_pc[t]]

\* Where the thread goes after the operation it is at.
After(t) ==
    IF lk_pc[t] < Len(Program(t)) THEN lk_pc[t] + 1
    ELSE IF t \in Loops THEN 1 ELSE lk_pc[t] + 1

\* SmartHub.start(): the flags set, the threads started; the dashboard's
\* requests arrive from then on, and the main thread may call stop().
LockStart ==
    /\ \A t \in LockThreads : lk_pc[t] = 0
    /\ lk_pc' = [t \in LockThreads |-> 1]
    /\ lk_flag' = [f \in Flags |-> TRUE]
    /\ UNCHANGED lk_held
    /\ UNCHANGED notLock

\* with lock: entered, the lock being free (threading.Lock, not reentrant).
LockAcquire(t) ==
    /\ Live(t)
    /\ Op(t)[1] = "acquire"
    /\ lk_held[Op(t)[2]] = "free"
    /\ lk_held' = [lk_held EXCEPT ![Op(t)[2]] = t]
    /\ lk_pc' = [lk_pc EXCEPT ![t] = After(t)]
    /\ UNCHANGED lk_flag
    /\ UNCHANGED notLock

\* with lock: left.
LockRelease(t) ==
    /\ Live(t)
    /\ Op(t)[1] = "release"
    /\ lk_held' = [lk_held EXCEPT ![Op(t)[2]] = "free"]
    /\ lk_pc' = [lk_pc EXCEPT ![t] = After(t)]
    /\ UNCHANGED lk_flag
    /\ UNCHANGED notLock

\* self._running = False
FlagClear(t) ==
    /\ Live(t)
    /\ Op(t)[1] = "clear"
    /\ lk_flag' = [lk_flag EXCEPT ![Op(t)[2]] = FALSE]
    /\ lk_pc' = [lk_pc EXCEPT ![t] = After(t)]
    /\ UNCHANGED lk_held
    /\ UNCHANGED notLock

\* while self._running / while self.is_running(): the loop goes on or ends.
FlagTest(t) ==
    /\ Live(t)
    /\ Op(t)[1] = "test"
    /\ lk_pc' = [lk_pc EXCEPT ![t] = IF lk_flag[Op(t)[2]] THEN After(t)
                                      ELSE Len(Program(t)) + 1]
    /\ UNCHANGED <<lk_held, lk_flag>>
    /\ UNCHANGED notLock

\* thread.join(timeout=5.0), taken at its strongest: it waits for the end
\* of the thread.
ThreadJoin(t) ==
    /\ Live(t)
    /\ Op(t)[1] = "join"
    /\ ~Live(Op(t)[2])
    /\ lk_pc' = [lk_pc EXCEPT ![t] = After(t)]
    /\ UNCHANGED <<lk_held, lk_flag>>
    /\ UNCHANGED notLock

LockNext ==
    \/ LockStart
    \/ \E t \in LockThreads : LockAcquire(t)
    \/ \E t \in LockThreads : LockRelease(t)
    \/ \E t \in LockThreads : FlagClear(t)
    \/ \E t \in LockThreads : FlagTest(t)
    \/ \E t \in LockThreads : ThreadJoin(t)

\* ========================================================================
\* SmartHub.start() called from several threads
\* ========================================================================

\* start() calls made on the hub, by any caller.
MaxHubStarts == 3

\* After the device at index i: the next device, or the controller thread.
BootAfter(i) == IF i < Len(BootDevices) THEN "device" ELSE "thread"

\* lines 126-128: if self._running: return.
BootCheck(c) ==
    /\ hs_pc[c] = "idle"
    /\ hs_calls < MaxHubStarts
    /\ hs_calls' = hs_calls + 1
    /\ hs_pc' = [hs_pc EXCEPT ![c] = IF hs_flag THEN "idle" ELSE "flag"]
    /\ UNCHANGED <<hs_dev, hs_flag, hs_dev_flag, hs_loops, hs_controllers>>
    /\ UNCHANGED notBoot

\* line 131: self._running = True.
BootFlag(c) ==
    /\ hs_pc[c] = "flag"
    /\ hs_flag' = TRUE
    /\ hs_pc' = [hs_pc EXCEPT ![c] = "device"]
    /\ hs_dev' = [hs_dev EXCEPT ![c] = 1]
    /\ UNCHANGED <<hs_calls, hs_dev_flag, hs_loops, hs_controllers>>
    /\ UNCHANGED notBoot

\* lines 133-137, Device.start lines 21-27: the device is enabled; if it is
\* running already, start() returns and the hub goes on to the next device.
BootDeviceCheck(c) ==
    /\ hs_pc[c] = "device"
    /\ IF hs_dev_flag[hs_dev[c]]
       THEN /\ hs_pc' = [hs_pc EXCEPT ![c] = BootAfter(hs_dev[c])]
            /\ hs_dev' = [hs_dev EXCEPT ![c] = @ + 1]
       ELSE /\ hs_pc' = [hs_pc EXCEPT ![c] = "launch"]
            /\ UNCHANGED hs_dev
    /\ UNCHANGED <<hs_calls, hs_flag, hs_dev_flag, hs_loops, hs_controllers>>
    /\ UNCHANGED notBoot

\* Device.start lines 29-31: set the flag, create and start the loop thread.
BootDeviceLaunch(c) ==
    /\ hs_pc[c] = "launch"
    /\ hs_dev_flag' = [hs_dev_flag EXCEPT ![hs_dev[c]] = TRUE]
    /\ hs_loops' = [hs_loops EXCEPT ![hs_dev[c]] = @ + 1]
    /\ hs_pc' = [hs_pc EXCEPT ![c] = BootAfter(hs_dev[c])]
    /\ hs_dev' = [hs_dev EXCEPT ![c] = @ + 1]
    /\ UNCHANGED <<hs_calls, hs_flag, hs_controllers>>
    /\ UNCHANGED notBoot

\* lines 139-142: create and start the controller thread; start() returns.
BootThread(c) ==
    /\ hs_pc[c] = "thread"
    /\ hs_controllers' = hs_controllers + 1
    /\ hs_pc' = [hs_pc EXCEPT ![c] = "idle"]
    /\ UNCHANGED <<hs_calls, hs_dev, hs_flag, hs_dev_flag, hs_loops>>
    /\ UNCHANGED notBoot

BootNext ==
    \E c \in Callers :
        \/ BootCheck(c)
        \/ BootFlag(c)
        \/ BootDeviceCheck(c)
        \/ BootDeviceLaunch(c)
        \/ BootThread(c)

\* ========================================================================
\* Specifications
\* ========================================================================

\* ---- the device sub-model ----

\* The hub as constructed from one configuration, never started.
HubIdle == HubInit /\ config = SmallHome

Init == DevInit /\ ActInit /\ aKind = "light" /\ aState = FALSE /\ HubIdle /\ EngIdle

Next == DevNext(Callers)

\* Any number of threads calling start()/stop() on one device.
Spec == Init /\ [][Next]_vars

\* The same with every loop thread scheduled fairly (OS threads).
FairSpec == Spec /\ \A t \in Threads : WF_vars(LoopStep(t))

NextSeq == DevNext({"c1"})

\* One thread calling start()/stop(), one call after the other.
SpecSeq == Init /\ [][NextSeq]_vars

\* ---- the actuator sub-model ----

InitAct == ActInit /\ DevInit /\ kind = "actuator" /\ enabled = TRUE /\ HubIdle /\ EngIdle

NextAct == ActNext

SpecAct == InitAct /\ [][NextAct]_vars

\* The loop of one actuator: the thread Device.start() launched.
LoopNext ==
    \/ \E cmd \in CommandSet : ActEnqueue(cmd)
    \/ ActTake("w1")
    \/ ActToggleRead("w1")
    \/ SetStateEnter("w1")
    \/ SetStateAssign("w1")
    \/ ActTail("w1")

\* One actuator with its one loop and the producers of its commands.
SpecLoop == InitAct /\ [][LoopNext]_vars

\* ---- the hub sub-model ----

InitHub ==
    /\ HubInit
    /\ DevInit /\ kind = "sensor" /\ enabled = TRUE
    /\ ActInit /\ aKind = "light" /\ aState = FALSE
    /\ EngIdle

\* The hub with its sensor loops, actuator loops and controller, and the
\* main thread that starts and stops it. (No request of the dashboard
\* touches the reading channel.)
SpecHub == InitHub /\ [][HubNext]_vars

\* The same with the controller thread and every actuator loop scheduled
\* fairly (OS threads); nothing is assumed of the sensors.
FairSpecHub ==
    /\ SpecHub
    /\ WF_vars(CtlStep)
    /\ \A a \in ActuatorTypes : WF_vars(ActuatorStep(a))

InitDash == InitHub /\ config = SmallHome

\* A hub serving the dashboard: get_state() and control_actuator requests
\* arrive at any moment after start().
SpecDash == InitDash /\ [][DashNext]_vars

FacadeNext ==
    \/ HubNext
    \/ \E name \in RequestNames, action \in RequestActions : ControlActuator(name, action)

\* The same hub with control requests alone.
SpecFacade == InitDash /\ [][FacadeNext]_vars

ServingNext ==
    \/ HubStart
    \/ \E s \in SensorTypes : \E v \in SensorValues(s) : SensorSample(s, v)
    \/ \E s \in SensorTypes : SensorPublish(s)
    \/ CtlCheck
    \/ DrainOne
    \/ DrainDone
    \/ UpdateState
    \/ CtlEvaluate
    \/ CtlRoute
    \/ CtlSimulate
    \/ \E a \in ActuatorTypes : ActLoopWork(a)
    \/ \E name \in RequestNames, action \in RequestActions : ControlActuator(name, action)

\* The hub between start() and stop(): its loops running, control requests
\* arriving.
SpecServing == InitDash /\ [][ServingNext]_vars

InitRound ==
    /\ config = VariedHome /\ HubConstructed
    /\ DevInit /\ kind = "sensor" /\ enabled = TRUE
    /\ ActInit /\ aKind = "light" /\ aState = FALSE
    /\ EngIdle

\* The hub with a sensor whose successive samples differ.
SpecRound == InitRound /\ [][HubNext]_vars

\* ---- the rule engine sub-model ----

InitEngine ==
    /\ EngConstructed /\ eng_state \in EngSnapshots
    /\ config = AwayHome /\ HubConstructed
    /\ DevInit /\ kind = "sensor" /\ enabled = TRUE
    /\ ActInit /\ aKind = "light" /\ aState = FALSE

\* An engine whose callers add rules and evaluate a snapshot, in any order.
SpecEngine == InitEngine /\ [][EngNext]_vars

InitBuiltin ==
    /\ EngConstructed /\ eng_state \in Snapshots
    /\ config \in {AwayHome, OccupiedHome} /\ HubConstructed
    /\ DevInit /\ kind = "sensor" /\ enabled = TRUE
    /\ ActInit /\ aKind = "light" /\ aState = FALSE

\* The engine with its built-in rules evaluating any snapshot.
SpecBuiltin == InitBuiltin /\ [][EngEvaluate]_vars

InitAway ==
    /\ config = AwayHome /\ HubConstructed
    /\ DevInit /\ kind = "sensor" /\ enabled = TRUE
    /\ ActInit /\ aKind = "light" /\ aState = FALSE
    /\ EngIdle

\* The hub of a home left empty: a motion sensor, an alarm, away mode on.
SpecAway == InitAway /\ [][HubNext]_vars

\* The empty home with a motion sensor that reads motion and then quiet.
QuietHome == [AwayHome EXCEPT !.samples["motion"] = BOOLEAN]

InitLatch ==
    /\ config = QuietHome /\ HubConstructed
    /\ DevInit /\ kind = "sensor" /\ enabled = TRUE
    /\ ActInit /\ aKind = "light" /\ aState = FALSE
    /\ EngIdle

\* The hub of the empty home, with nobody posting commands.
SpecLatch == InitLatch /\ [][HubNext]_vars

InitRoute ==
    /\ config = MixedHome /\ HubConstructed
    /\ DevInit /\ kind = "sensor" /\ enabled = TRUE
    /\ ActInit /\ aKind = "light" /\ aState = FALSE
    /\ EngIdle

\* A hub whose rules name an actuator it has and one it has not.
SpecRoute == InitRoute /\ [][HubNext]_vars

\* ---- SmartHub.stop() ----

\* A hub that is started, or not, and then stopped, once or again.
SpecStop == InitDash /\ [][StopNext]_vars

\* ---- the away-mode hub ----

\* The processing thread at its motion readings while requests toggle
\* away mode.
SpecAwayMode == InitDash /\ [][AwayNext]_vars

\* ---- the controller loop and its exceptions ----

\* The hub with a controller and sensors whose steps may raise.
SpecFault == InitDash /\ [][FaultNext]_vars

\* ---- the locks ----

\* The threads of a started hub at their locks.
SpecLocks == InitDash /\ [][LockNext]_vars

\* ---- SmartHub.start() ----

\* Any number of threads calling start() on one hub that is never stopped.
SpecBoot == InitDash /\ [][BootNext]_vars

\* ========================================================================
\* Claims about the device lifecycle
\* ========================================================================

\* C1 (as claimed): under any interleaving of start() calls alone (no stop()
\* has been called), at most one execution loop of the device is alive.
C1_OneLoopPerStart == (stops = 0) => Cardinality(Alive) <= 1

\* C2 (as claimed): once a start() that followed a returned stop() has
\* launched its loop, no loop other than the newly launched one passes its
\* running check and goes back to work.
C2_AbandonedLoopStaysOut ==
    [][\A t \in Threads :
          (restarted = "yes" /\ t # thread /\ loopPc[t] = "check") => loopPc'[t] \in {"check", "exited"}]_vars

\* C3: after stop() has cleared the flag, and as long as no step of a start()
\* call follows: is_running() is false from the moment stop() returns, every
\* loop of the device eventually exits, and while no loop is alive no reading
\* is published and no command is applied.
C3_StopTakesEffect ==
    /\ [](quiet = "returned" => ~running)
    /\ ((quiet # "no") ~> (quiet = "no" \/ Alive = {}))
    /\ [][Alive = {} => (published' = published /\ applied' = applied)]_vars

\* C3 witness: stop() has returned, a loop that had done work has exited.
C3_Witness ==
    /\ quiet = "returned"
    /\ \E t \in Threads : loopPc[t] = "exited"
    /\ Alive = {}
    /\ published + applied > 0

\* C4: on a disabled device the running flag stays false, no thread object
\* is created, no loop is launched and no exception reaches a caller,
\* whatever start()/stop() calls are made.
C4_DisabledNeverStarts ==
    ~enabled => (~running /\ thread = 0 /\ created = 0 /\ Alive = {} /\ ~raised)

\* C4 witness: a disabled device on which start() and stop() have been
\* called and have returned.
C4_Witness ==
    /\ ~enabled
    /\ starts > 0
    /\ stops > 0
    /\ \A c \in Callers : callPc[c] = "idle"

\* ========================================================================
\* Claims about the actuator state
\* ========================================================================

\* C5: every set_state(v) notifies if and only if v differs from the state
\* held immediately before its assignment, under every interleaving of the
\* two threads' get_state()/set_state() calls.
C5_NotifyIffChanged ==
    \A i \in 1..Len(applyLog) :
        applyLog[i].set => (applyLog[i].notified <=> (applyLog[i].before # applyLog[i].new))

\* C5 witness: two threads have called set_state() with the same value; the
\* call that changed the state notified, the other did not.
C5_Witness ==
    \E i, j \in 1..Len(applyLog) :
        /\ applyLog[i].by # applyLog[j].by
        /\ applyLog[i].set /\ applyLog[i].notified
        /\ applyLog[j].set /\ ~applyLog[j].notified
        /\ applyLog[i].new = applyLog[j].new

\* The commands that name a target state (everything but toggle and the
\* commands without a state part).
StateSetting(cmd) ==
    \/ cmd.action \in {"turn_on", "turn_off", "activate", "deactivate"}
    \/ cmd.action = "none" /\ cmd.state # "none"

\* C6: the same state-setting command applied twice in a row notifies at
\* most once, and leaves the state after the second application equal to the
\* state after the first, for every actuator kind.
C6_Idempotent ==
    \A i \in 1..(Len(applyLog) - 1) :
        (applyLog[i].cmd = applyLog[i + 1].cmd /\ StateSetting(applyLog[i].cmd))
            => /\ ~(applyLog[i].notified /\ applyLog[i + 1].notified)
               /\ applyLog[i + 1].after = applyLog[i].after

\* C6 witness: a state-setting command applied twice in a row, the first
\* application having changed the state.
C6_Witness ==
    \E i \in 1..(Len(applyLog) - 1) :
        /\ applyLog[i].cmd = applyLog[i + 1].cmd
        /\ StateSetting(applyLog[i].cmd)
        /\ applyLog[i].notified
        /\ applyLog[i + 1].set

\* ========================================================================
\* Claims about the hub's channels and its aggregate state
\* ========================================================================

\* The reading is on the reading channel.
InChannel(r) ==
    \E i \in 1..Len(sensor_data_queue) : sensor_data_queue[i].timestamp = r

\* C7: every reading on the reading channel is consumed exactly once by the
\* controller cycle: it is never dequeued twice; it leaves the channel only
\* in the controller's drain step, which folds it into the aggregate state;
\* and while the hub keeps running it is eventually dequeued and folded,
\* for every interleaving of the sensors and the controller.
C7_ReadingConsumedOnce ==
    /\ [](\A r \in Readings : dequeued[r] <= 1 /\ folded[r] = dequeued[r])
    /\ [][\A r \in Readings :
             (InChannel(r) /\ ~InChannel(r)')
                 => (ctl_pc = "drain" /\ dequeued'[r] = dequeued[r] + 1)]_vars
    /\ \A r \in Readings : InChannel(r) ~> (folded[r] = 1 \/ ~hub_running)

\* C7 witness: with the hub running, the controller has dequeued the reading
\* of one sensor and folded it into that sensor's slot, while a reading of
\* another sensor waits on the channel.
C7_Witness ==
    /\ hub_running
    /\ \E s \in SensorTypes, i \in 1..Len(sensor_data_queue) :
          /\ st_sensors[s] # 0
          /\ slots[s][st_sensors[s]].timestamp \in Readings
          /\ dequeued[slots[s][st_sensors[s]].timestamp] = 1
          /\ folded[slots[s][st_sensors[s]].timestamp] = 1
          /\ sensor_data_queue[i].sensor_id # DeviceId(s)

\* C8: every command placed on an actuator's queue is eventually applied by
\* that actuator's loop, also when it is placed during hub shutdown: an
\* actuator loop that has ended (it is never started again) has left no
\* command on its queue.
C8_EveryCommandApplied ==
    \A a \in ActuatorTypes : act_pc[a] = "exited" => act_queue[a] = <<>>

\* C9: a snapshot returned by get_state() is an immutable value copy: what
\* is observable through it (top-level keys, per-sensor and per-actuator
\* entries) stays what it was when it was returned.
C9_SnapshotImmutable == snap.taken => View(snap) = snap_view

\* C10: a snapshot is never a partially updated state: in the snapshot as
\* returned, each top-level sensor key it has agrees with that sensor's slot
\* under 'sensors', and each top-level actuator key with the slot under
\* 'actuators'.
C10_SnapshotConsistent ==
    snap.taken =>
        /\ \A s \in SensorTypes :
              s \in snap_view.keys => snap_view.top[s] = snap_view.sensors[s]
        /\ \A a \in ActuatorTypes :
              ActuatorKey(a) \in snap_view.keys
                  => snap_view.top_act[a] = snap_view.actuators[a]

\* A reading of the sensor has been folded since the last refresh: the drain
\* step has put a new slot dict under state['sensors'], the top-level key
\* still refers to the one of the last refresh (or to none).
FoldedThisCycle(s) == st_sensors[s] # 0 /\ st_sensors[s] # st_top[s]

\* C11: round trip: a reading enqueued before a controller cycle begins is,
\* after that cycle, reflected under its sensor's own top-level key with the
\* reading's value: when the refresh step of a cycle has run, the value
\* under the key of each sensor is the value of the reading of that sensor
\* the cycle folded last. (Nothing writes the state between the refresh and
\* the end of the cycle.)
C11_RoundTrip ==
    [][(ctl_pc = "update" /\ ctl_pc' = "rules") =>
          \A s \in SensorTypes :
              FoldedThisCycle(s) =>
                  /\ s \in st_keys'
                  /\ st_top'[s] # 0
                  /\ slots'[s][st_top'[s]].value = slots[s][st_sensors[s]].value]_vars

\* ------------------------------------------------------------------------
\* The rule engine
\* ------------------------------------------------------------------------

\* The position of a rule id in a sequence of ids.
IndexOf(ids, id) == CHOOSE i \in 1..Len(ids) : ids[i] = id

\* The priority a rule was added with.
PriorityOf(id) == (CHOOSE r \in SeqRange(eng_rules) : r.rule_id = id).priority

\* The rule a returned command comes from.
CommandRule(command) ==
    (CHOOSE r \in SeqRange(eng_rules) : ActionCommands(r) = <<command>>).rule_id

\* One rule is evaluated before another: lower priority value, or the same
\* priority and added earlier.
Precedes(a, b) ==
    \/ PriorityOf(a) < PriorityOf(b)
    \/ PriorityOf(a) = PriorityOf(b) /\ IndexOf(eng_added, a) < IndexOf(eng_added, b)

\* C12: whatever add_rule calls were made, a call of evaluate_rules visits
\* every rule once, in ascending priority value and, among rules of equal
\* priority, in the order they were added; the commands it returns are in
\* the order of the rules they come from; with the built-in rules alone the
\* order is security_alarm, temp_low, temp_high, motion_light,
\* no_motion_light.
C12_PriorityThenInsertionOrder ==
    eng_result # <<>> =>
        /\ Len(eng_visited) = Len(eng_added)
        /\ SeqRange(eng_visited) = SeqRange(eng_added)
        /\ \A i, j \in 1..Len(eng_visited) :
               i < j => Precedes(eng_visited[i], eng_visited[j])
        /\ \A k, l \in 1..Len(eng_result[1]) :
               k < l => Precedes(CommandRule(eng_result[1][k]), CommandRule(eng_result[1][l]))
        /\ Len(eng_added) = Len(AddedRules) =>
               eng_visited = <<"security_alarm", "temp_low", "temp_high", "motion_light",
                               "no_motion_light">>

\* Two rules added with the priority of temp_low and temp_high, both
\* firing, and the list evaluated.
C12_Witness ==
    /\ eng_result # <<>>
    /\ Len(eng_added) = Len(AddedRules) + 2
    /\ \A r \in SeqRange(eng_rules) :
           r.cond # "builtin" => r.priority = 1 /\ r.cond = "true" /\ r.act = "returns"
    /\ Len(eng_result[1]) >= 4

\* The rule's condition holds on the snapshot and its action returns.
Fires(rule) ==
    /\ ConditionOutcome(rule, SnapshotInputs(eng_state)) = "true"
    /\ rule.act # "raises"

\* The commands of the given rules, one after the other.
CommandsOf(rules) == [i \in 1..Len(rules) |-> ActionCommands(rules[i])[1]]

\* C13: evaluate_rules never short-circuits: every rule of the list is
\* evaluated, and the returned list is the concatenation, in list order, of
\* the commands of every rule whose condition holds on the snapshot; a rule
\* that fires does not keep a later rule from being evaluated and firing.
C13_NoShortCircuit ==
    eng_result # <<>> =>
        /\ eng_visited = [i \in 1..Len(eng_rules) |-> eng_rules[i].rule_id]
        /\ eng_result[1] = CommandsOf(SelectSeq(eng_rules, Fires))

\* The first rule of the list fired and two rules behind it fired too.
C13_Witness ==
    /\ eng_state = ColdDarkRoom
    /\ eng_result # <<>>
    /\ SubSeq(eng_result[1], 1, 3) =
           <<HubCommand("alarm", "activate"), HubCommand("heater", "turn_on"),
             HubCommand("light", "turn_on")>>

\* The rule's condition raises on the snapshot, or holds with an action
\* that raises.
Faulty(rule) ==
    \/ ConditionOutcome(rule, SnapshotInputs(eng_state)) = "raises"
    \/ /\ ConditionOutcome(rule, SnapshotInputs(eng_state)) = "true"
       /\ rule.act = "raises"

Sound(rule) == ~Faulty(rule)

\* C14: a rule whose condition raises is treated as not fired and a rule
\* whose action raises contributes no commands; evaluate_rules does not
\* raise, every rule is still evaluated, and the list returned is the one
\* the engine returns for the same rules without the faulty ones.
C14_FaultyRuleIsolated ==
    /\ ~eng_raised
    /\ eng_visited # <<>> => eng_result # <<>>
    /\ eng_result # <<>> =>
           /\ SeqRange(eng_visited) = SeqRange(eng_added)
           /\ \A r \in SeqRange(eng_rules) :
                  Faulty(r) => \A k \in 1..Len(eng_result[1]) :
                                   eng_result[1][k] # ActionCommands(r)[1]
           /\ eng_result[1] =
                  EvaluateRules(SelectSeq(eng_rules, Sound), SnapshotInputs(eng_state))

\* A rule whose condition raises and a rule whose action raises, both
\* ahead of motion_light in the list, and motion_light fired.
C14_Witness ==
    /\ eng_state = ColdDarkRoom
    /\ eng_result # <<>>
    /\ \E r \in SeqRange(eng_rules) : r.priority = 1 /\ r.cond = "raises"
    /\ \E r \in SeqRange(eng_rules) : r.priority = 1 /\ r.cond = "true" /\ r.act = "raises"
    /\ eng_result[1] =
           <<HubCommand("alarm", "activate"), HubCommand("heater", "turn_on"),
             HubCommand("light", "turn_on")>>

\* The rule with the given id.
RuleOf(id) == CHOOSE r \in SeqRange(eng_rules) : r.rule_id = id

\* C15: last_triggered is updated on successful execution only: after
\* evaluate_rules, last_triggered of a rule has changed if and only if its
\* condition was true and its action returned its commands without raising.
C15_StampedOnSuccessOnly ==
    eng_result # <<>> =>
        \A id \in SeqRange(eng_added) :
            (eng_last[id] # eng_before[id]) <=> Fires(RuleOf(id))

Emitted(command) == \E k \in 1..Len(eng_result[1]) : eng_result[1][k] = command

\* An actuator entry of the snapshot shows the actuator off: state False,
\* or no state at all.
Off(entry) == entry = <<>> \/ entry = <<FALSE>>

\* No built-in rule but the given one has its condition hold on the snapshot.
OnlyRule(rule_id) ==
    \A i \in 1..Len(AddedRules) :
        AddedRules[i].rule_id # rule_id =>
            ~Condition(AddedRules[i].rule_id, SnapshotInputs(eng_state))

\* C17: heater-on rule: the command heater/turn_on is emitted if and only
\* if a temperature value is present, it is strictly below threshold_low and
\* the heater state is off or absent; where no other rule's condition holds
\* (temperature 15, threshold_low 18, heater off) the engine returns
\* exactly that one command.
C17_HeaterOn ==
    eng_result # <<>> =>
        LET cold == /\ eng_state.temperature # <<>>
                    /\ eng_state.temperature[1] < config.rules.temperature_threshold_low
                    /\ Off(eng_state.heater)
        IN /\ Emitted(HubCommand("heater", "turn_on")) <=> cold
           /\ (cold /\ OnlyRule("temp_low")) =>
                  eng_result[1] = <<HubCommand("heater", "turn_on")>>

\* Temperature 15 under a threshold of 18 with the heater off, evaluated.
C17_Witness ==
    /\ eng_state.temperature = <<15>>
    /\ config.rules.temperature_threshold_low = 18
    /\ eng_state.heater = <<FALSE>>
    /\ eng_result = << <<HubCommand("heater", "turn_on")>> >>

\* C18: heater-off rule: the command heater/turn_off is emitted if and only
\* if a temperature value is present, it is strictly above threshold_high
\* and the heater state is on; where no other rule's condition holds
\* (temperature 23, threshold_high 22, heater on) the engine returns exactly
\* that one command; for a temperature within [threshold_low,
\* threshold_high] no heater command is emitted whatever the heater state.
C18_HeaterOff ==
    eng_result # <<>> =>
        LET warm == /\ eng_state.temperature # <<>>
                    /\ eng_state.temperature[1] > config.rules.temperature_threshold_high
                    /\ eng_state.heater = <<TRUE>>
            within == /\ eng_state.temperature # <<>>
                      /\ eng_state.temperature[1] >= config.rules.temperature_threshold_low
                      /\ eng_state.temperature[1] <= config.rules.temperature_threshold_high
        IN /\ Emitted(HubCommand("heater", "turn_off")) <=> warm
           /\ (warm /\ OnlyRule("temp_high")) =>
                  eng_result[1] = <<HubCommand("heater", "turn_off")>>
           /\ within => \A k \in 1..Len(eng_result[1]) :
                            eng_result[1][k].actuator # "heater"

\* Temperature 23 over a threshold of 22 with the heater on, evaluated.
C18_Witness ==
    /\ eng_state.temperature = <<23>>
    /\ config.rules.temperature_threshold_high = 22
    /\ eng_state.heater = <<TRUE>>
    /\ eng_result = << <<HubCommand("heater", "turn_off")>> >>

\* C19: motion-light rule: the command light/turn_on is emitted if and only
\* if motion is true, a light level is present and strictly below the light
\* threshold, and the state under the key light_actuator is off; where no
\* other rule's condition holds (motion true, light 20, threshold 30, light
\* actuator off) the engine returns exactly that one command.
C19_MotionLight ==
    eng_result # <<>> =>
        LET dark == /\ eng_state.motion = <<TRUE>>
                    /\ eng_state.light # <<>>
                    /\ eng_state.light[1] < config.rules.light_threshold_low
                    /\ Off(eng_state.light_actuator)
        IN /\ Emitted(HubCommand("light", "turn_on")) <=> dark
           /\ (dark /\ OnlyRule("motion_light")) =>
                  eng_result[1] = <<HubCommand("light", "turn_on")>>

\* Motion under a light level of 20 with a threshold of 30 and the light
\* actuator off, evaluated.
C19_Witness ==
    /\ eng_state.motion = <<TRUE>>
    /\ eng_state.light = <<20>>
    /\ config.rules.light_threshold_low = 30
    /\ eng_state.light_actuator = <<FALSE>>
    /\ eng_result = << <<HubCommand("light", "turn_on")>> >>

\* ------------------------------------------------------------------------
\* The security rule in the hub
\* ------------------------------------------------------------------------

\* What the rules read of the hub's state at this moment.
HubInputs == RuleInputs(st_keys, st_top, st_top_act, slots)

\* C20: security rule over the cycles of a hub in away mode: a cycle whose
\* snapshot shows motion and the alarm off yields the command
\* alarm/activate; the alarm actuator applying that command turns the
\* alarm on; a cycle whose snapshot shows the alarm on yields no command
\* for the alarm.
C20_AlarmOnce ==
    [][/\ (ctl_pc = "rules" /\ ctl_pc' = "route") =>
              /\ (HubInputs.motion /\ ~HubInputs.alarm) =>
                     ctl_commands' = <<HubCommand("alarm", "activate")>>
              /\ HubInputs.alarm =>
                     \A k \in 1..Len(ctl_commands') : ctl_commands'[k].actuator # "alarm"
       /\ (/\ act_queue["alarm"] # <<>>
           /\ act_queue'["alarm"] = Tail(act_queue["alarm"])
           /\ Head(act_queue["alarm"]) = HubCommand("alarm", "activate")) =>
              act_state'["alarm"]]_vars

\* The alarm actuator has applied the command, and the cycle that saw
\* motion with the alarm on has evaluated the rules and emitted nothing.
C20_Witness ==
    /\ config = AwayHome
    /\ act_state["alarm"]
    /\ act_queue["alarm"] = <<>>
    /\ HubInputs.motion
    /\ HubInputs.alarm
    /\ ctl_pc = "route"
    /\ ctl_commands = <<>>

\* ------------------------------------------------------------------------
\* Routing of commands
\* ------------------------------------------------------------------------

\* C21: controller routing: the controller takes the commands of a cycle one
\* by one and leaves none behind; each goes on the queue of the actuator it
\* names and on no other queue; a command naming an actuator the hub has
\* not is dropped, reaches no queue, and the commands behind it are routed.
C21_RoutedToNamedActuator ==
    [][/\ (ctl_pc = "route" /\ ctl_commands # <<>> /\ ctl_commands' # ctl_commands) =>
              /\ ctl_commands' = Tail(ctl_commands)
              /\ ctl_pc' = "route"
              /\ \A a \in ActuatorTypes :
                     act_queue'[a] =
                         IF a = Head(ctl_commands).actuator /\ a \in config.actuators
                         THEN Append(act_queue[a], Head(ctl_commands))
                         ELSE act_queue[a]
       /\ (ctl_pc = "route" /\ ctl_pc' # "route") => ctl_commands = <<>>]_vars

\* The cycle's commands were alarm/activate, which the hub has no actuator
\* for, and heater/turn_on behind it: the second is on the heater's queue.
C21_Witness ==
    /\ config = MixedHome
    /\ HubInputs.motion
    /\ ctl_pc = "route"
    /\ ctl_commands = <<>>
    /\ act_queue["heater"] = <<HubCommand("heater", "turn_on")>>
    /\ act_queue["alarm"] = <<>>
    /\ act_state["heater"] = FALSE

C23_StartIdempotent ==
    (hs_calls >= 1 /\ \A c \in Callers : hs_pc[c] = "idle") =>
        /\ hs_controllers = 1
        /\ \A i \in 1..Len(BootDevices) : hs_loops[i] = 1

\* No join of a stop() call has run out, and the last call has returned.
StoppedClean == stop_pc = <<"returned">> /\ ~timed_out

\* What the program holds: flags, loop positions, channel, state, queues.
HubProgramState ==
    <<hub_running, sen_running, sen_pc, sen_value, sensor_data_queue, st_keys,
      st_sensors, st_top, st_actuators, st_top_act, slots, ctl_pc, ctl_commands,
      act_running, act_pc, act_state, act_queue, dequeued, folded>>

\* C24: when stop() returns, no join having timed out, the hub's flag is
\* false, every sensor and actuator reports is_running() false and the
\* controller loop has exited; from then on nothing is drained, evaluated
\* or routed, a further stop() included; stop() on a hub that was never
\* started changes nothing.
C24_StopQuiesces ==
    /\ [](StoppedClean =>
            /\ ~hub_running
            /\ \A s \in SensorTypes : ~sen_running[s]
            /\ \A a \in ActuatorTypes : ~act_running[a]
            /\ ~ControllerAlive)
    /\ [][(~timed_out /\ (stop_pc = <<"returned">> \/ hub_stops >= 2 \/ ~hub_started'))
              => UNCHANGED HubProgramState]_vars

\* A started hub whose controller has folded a reading, stopped twice with
\* every join returning in time.
C24_Witness ==
    /\ StoppedClean
    /\ hub_started
    /\ hub_stops = 2
    /\ \E r \in Readings : folded[r] > 0

\* ------------------------------------------------------------------------
\* Away mode
\* ------------------------------------------------------------------------

\* C25: while away mode is enabled a motion reading with the alarm off
\* activates the alarm; while it is disabled no motion reading ever
\* activates the alarm; and when set_away_mode(false) has gone through its
\* reset the alarm is inactive.
C25_AwayModeGatesAlarm ==
    /\ [][(proc_pc = "trigger" /\ proc_pc' = "get") => alarm_status']_vars
    /\ [][(~alarm_status /\ alarm_status') => away_mode]_vars
    /\ [][(away_pc = "reset" /\ away_pc' = "idle") => ~alarm_status']_vars

\* ------------------------------------------------------------------------
\* Exceptions in the loops
\* ------------------------------------------------------------------------

\* C26: the controller never terminates on an internal error: a step of
\* the cycle that raises ends the cycle there (nothing more is drained,
\* refreshed or routed by it) and the loop comes back to its while test;
\* the loop exits only when the hub's running flag has been cleared.
C26_ControllerSurvives ==
    /\ [][(ctl_faults' # ctl_faults) =>
             /\ ctl_pc' = "top"
             /\ ctl_commands' = <<>>
             /\ UNCHANGED <<sensor_data_queue, dequeued, folded, st_keys, st_sensors,
                            st_top, st_actuators, st_top_act, slots, act_queue>>]_vars
    /\ [][(ctl_pc # "exited" /\ ctl_pc' = "exited") => ~hub_running]_vars
    /\ [](ctl_pc = "exited" => ~hub_running)

\* After a cycle that raised, the controller is in a further cycle, at its
\* rules, the hub still running.
C26_Witness ==
    /\ ctl_faults >= 1
    /\ hub_running
    /\ ctl_pc = "rules"

\* C27: a sampling failure never terminates a sensor loop: the iteration
\* in which _read_sensor raises puts nothing on the channel and leaves
\* every current_value as it was, and the loop is back at its while test;
\* a sensor loop exits only when its running flag has been cleared.
C27_SensorSurvives ==
    /\ [][(sen_faults' # sen_faults) =>
             UNCHANGED <<sensor_data_queue, sen_value, sampled, sen_pc>>]_vars
    /\ [][\A s \in SensorTypes :
             (sen_pc[s] # "exited" /\ sen_pc'[s] = "exited") => ~sen_running[s]]_vars

\* A sensor whose sampling raised is at its while test with its flag set,
\* a value it sampled in another iteration on the channel.
C27_Witness ==
    /\ sen_faults >= 1
    /\ sen_running["temperature"]
    /\ sen_pc["temperature"] = "check"
    /\ sensor_data_queue # <<>>

\* The workers between the get() of a command and its application.
Applying == {w \in Workers : wPc[w] \in {"toggle", "set_state", "assign"}}

\* C28: a command whose application raises is dropped and never retried:
\* the step in which the exception is caught leaves the queue as it is (the
\* command, taken off it, is not put back), the loop is back at its while
\* test, every command put on the queue is applied at most once, and the
\* loop takes its commands from the head of the queue.
C28_RaisingCommandDropped ==
    /\ [][(dropped' # dropped) =>
             /\ command_queue' = command_queue
             /\ \A w \in Workers : wPc'[w] = "idle" /\ wCmd'[w] = NoCommand]_vars
    /\ [][\A w \in Workers :
             (wPc[w] = "idle" /\ wPc'[w] # "idle") =>
                 /\ wCmd'[w] = Head(command_queue)
                 /\ command_queue' = Tail(command_queue)]_vars
    /\ [](Len(applyLog) + Cardinality(Applying) + Len(command_queue) = enqueued)

\* A heater has dropped a command whose target temperature float() does not
\* take, and has then applied the command queued behind it.
C28_Witness ==
    /\ aKind = "heater"
    /\ dropped = 1
    /\ Len(applyLog) = 2
    /\ applyLog[1].cmd = Command("turn_on", "none", "abc")
    /\ applyLog[2].cmd = Command("turn_off", "none", "none")
    /\ applyLog[2].after = FALSE
    /\ command_queue = <<>>
    /\ wPc["w1"] = "idle"

\* ------------------------------------------------------------------------
\* The steps of the controller's cycle
\* ------------------------------------------------------------------------

\* The sensor whose device_id a reading carries.
Producer(data) == CHOOSE s \in SensorTypes : DeviceId(s) = data.sensor_id

\* The aggregate state: its keys, its dicts, the slot dicts.
AggregateState == <<st_keys, st_sensors, st_top, st_actuators, st_top_act, slots>>

\* C29: the drain step is non-blocking and complete: on an empty channel it
\* can return at once and returning leaves the state untouched; when it
\* returns the channel is empty and every reading put on it so far has been
\* taken off once and folded; each reading it takes goes into the slot of
\* the sensor that produced it, whatever the sensors publish meanwhile.
C29_DrainComplete ==
    /\ [](ctl_pc = "drain" /\ sensor_data_queue = <<>> => ENABLED DrainDone)
    /\ [][(ctl_pc = "drain" /\ ctl_pc' = "update") =>
             /\ sensor_data_queue' = <<>>
             /\ \A r \in Readings : r <= Sent => dequeued'[r] = 1 /\ folded'[r] = 1]_vars
    /\ [][(ctl_pc = "drain" /\ sensor_data_queue = <<>> /\ ctl_pc' = "update") =>
             UNCHANGED AggregateState]_vars
    /\ [][\A r \in Readings :
             dequeued'[r] # dequeued[r] =>
                 /\ Head(sensor_data_queue).timestamp = r
                 /\ slots'[Producer(Head(sensor_data_queue))]
                          [st_sensors'[Producer(Head(sensor_data_queue))]]
                      = [value |-> Head(sensor_data_queue).value, timestamp |-> r]]_vars

\* One drain step has folded a reading of each of two sensors and has
\* returned, the channel empty.
C29_Witness ==
    /\ ctl_pc = "update"
    /\ hub_running
    /\ sensor_data_queue = <<>>
    /\ FoldedThisCycle("light") /\ FoldedThisCycle("motion")
    /\ \A r \in Readings : r <= 2 => folded[r] = 1

\* C30: live refresh wins: when the refresh step of a cycle has run, the
\* value the state holds for every sensor of the hub, under 'sensors' and
\* under the sensor's own key, is the current_value the refresh read from
\* that sensor, and the state it holds for every actuator is the state the
\* refresh read from that actuator, whatever the drain step folded.
C30_LiveRefreshWins ==
    [][(ctl_pc = "update" /\ ctl_pc' = "rules") =>
          /\ \A s \in Sensors :
                 /\ {"sensors", s} \subseteq st_keys'
                 /\ st_sensors'[s] # 0
                 /\ st_top'[s] = st_sensors'[s]
                 /\ slots'[s][st_sensors'[s]].value = sen_value[s]
          /\ \A a \in Actuators :
                 /\ st_actuators'[a] = <<act_state[a]>>
                 /\ st_top_act'[a] = <<act_state[a]>>]_vars

\* The first reading of the temperature sensor was 15 (the heater has been
\* asked to go on), it is the one folded last, the sensor has since sampled
\* 23, and the refresh has stored 23 in its slot.
C30_Witness ==
    /\ ctl_pc = "rules"
    /\ sampled = 2
    /\ sen_value["temperature"] = 23
    /\ st_sensors["temperature"] # 0
    /\ slots["temperature"][st_sensors["temperature"]] = [value |-> 23, timestamp |-> 1]
    /\ (act_state["heater"] \/ act_queue["heater"] # <<>>)

\* ------------------------------------------------------------------------
\* Commands as each actuator kind reads them
\* ------------------------------------------------------------------------

\* The verbs that switch an actuator of the kind on and off.
OnVerb(k) == IF k = "alarm" THEN "activate" ELSE "turn_on"
OffVerb(k) == IF k = "alarm" THEN "deactivate" ELSE "turn_off"

\* C31: command interpretation per actuator kind: a light or a heater goes
\* to true on turn_on, to false on turn_off; an alarm goes to true on
\* activate, to false on deactivate; toggle negates the current state; a
\* command whose action the kind does not recognise leaves the state as it
\* is and notifies nobody.
C31_CommandInterpretation ==
    \A i \in 1..Len(applyLog) :
        LET e == applyLog[i]
        IN /\ e.cmd.action = OnVerb(aKind) => e.set /\ e.after = TRUE
           /\ e.cmd.action = OffVerb(aKind) => e.set /\ e.after = FALSE
           /\ e.cmd.action = "toggle" => e.set /\ e.after = ~e.before
           /\ e.cmd.action \notin {"none", "toggle", OnVerb(aKind), OffVerb(aKind)}
                 => ~e.set /\ ~e.notified /\ e.after = e.before

\* An alarm that was off has ignored turn_on and has then gone on, with a
\* notification, at activate.
C31_Witness ==
    /\ aKind = "alarm"
    /\ Len(applyLog) = 2
    /\ applyLog[1].cmd.action = "turn_on" /\ ~applyLog[1].set /\ ~applyLog[1].after
    /\ applyLog[2].cmd.action = "activate" /\ applyLog[2].notified /\ applyLog[2].after
    /\ aState

\* ------------------------------------------------------------------------
\* Locks
\* ------------------------------------------------------------------------

\* The thread waits: for a lock another thread holds, or for the end of a
\* thread that has not ended.
Waiting(t) ==
    /\ Live(t)
    /\ \/ Op(t)[1] = "acquire" /\ lk_held[Op(t)[2]] # "free"
       \/ Op(t)[1] = "join" /\ Live(Op(t)[2])

\* The thread it waits for.
WaitsFor(t) == IF Op(t)[1] = "acquire" THEN lk_held[Op(t)[2]] ELSE Op(t)[2]

\* A set of threads each of which waits for a thread of the set.
Deadlocked(D) == D # {} /\ \A t \in D : Waiting(t) /\ WaitsFor(t) \in D

\* C32: the system never deadlocks: no set of threads wait for one another
\* and no lock stays with a thread that has ended, so every thread can take
\* its next step or waits, directly or through other waiting threads, for
\* one that can; the state lock is never taken inside a device lock.
C32_NoDeadlock ==
    /\ \A D \in SUBSET LockThreads : ~Deadlocked(D)
    /\ \A l \in Locks : lk_held[l] # "free" => Live(lk_held[l])
    /\ \A t \in LockThreads :
           (Live(t) /\ Op(t) = Acq("state")) =>
               \A l \in Locks \ {"state"} : lk_held[l] # t

\* The hub running, the controller inside _update_state waits for the lock
\* of the sensor, which the sensor loop holds, and a request waits for the
\* state lock.
C32_Witness ==
    /\ lk_flag["hub"]
    /\ lk_held["state"] = "controller"
    /\ lk_held["temperature"] = "sensor"
    /\ Waiting("controller") /\ WaitsFor("controller") = "sensor"
    /\ Waiting("web") /\ WaitsFor("web") = "controller"


\* C33: with the built-in rule set, one evaluate_rules call yields at most
\* one command per actuator name, whatever the snapshot: the heater-on and
\* heater-off rules never both fire, nor do the lights-on and lights-off
\* rules, so no command of a cycle undoes an earlier command of that cycle.
C33_OneCommandPerActuator ==
    eng_result # <<>> =>
        /\ \A k, l \in 1..Len(eng_result[1]) :
               eng_result[1][k].actuator = eng_result[1][l].actuator => k = l
        /\ ~(Emitted(HubCommand("heater", "turn_on"))
               /\ Emitted(HubCommand("heater", "turn_off")))
        /\ ~(Emitted(HubCommand("light", "turn_on"))
               /\ Emitted(HubCommand("light", "turn_off")))

\* One call that commands the alarm, the heater and the lights, each once.
C33_Witness ==
    /\ eng_result # <<>>
    /\ Len(eng_result[1]) = 3
    /\ Emitted(HubCommand("heater", "turn_on"))
    /\ Emitted(HubCommand("light", "turn_on"))
    /\ Emitted(HubCommand("alarm", "activate"))



\* C34: the alarm latches: no built-in rule emits a deactivate or a toggle
\* for the alarm, so where no command is enqueued from outside, the alarm
\* actuator's state, once true, stays true whatever the sensors read later.
C34_AlarmLatches ==
    [][/\ act_state["alarm"] => act_state'["alarm"]
       /\ \A k \in 1..Len(ctl_commands') :
              ctl_commands'[k].actuator = "alarm" =>
                  ctl_commands'[k].action = "activate"
       /\ \A k \in 1..Len(act_queue'["alarm"]) :
              act_queue'["alarm"][k].action = "activate"]_vars

\* The alarm is on, the motion has ended, and a cycle that saw the quiet
\* home with the alarm on has evaluated the rules.
C34_Witness ==
    /\ config = QuietHome
    /\ act_state["alarm"]
    /\ HubInputs.alarm
    /\ ~HubInputs.motion
    /\ ctl_pc = "route"
    /\ ctl_commands = <<>>
    /\ act_queue["alarm"] = <<>>

\* C35: an actuator's state changes only when its own loop applies a
\* command taken from its own queue: the controller cycle, the rule engine
\* and the facade only enqueue; every change of state is a dequeue of a
\* command that was enqueued before, and no step taken while an actuator's
\* queue is and stays empty changes its state, so an actuator whose queue
\* never receives a command keeps the state it was constructed with.
C35_StateOnlyByOwnLoop ==
    /\ [][\A a \in ActuatorTypes :
              act_state'[a] # act_state[a] =>
                  /\ act_pc[a] = "check" /\ act_running[a]
                  /\ act_queue[a] # <<>>
                  /\ act_queue'[a] = Tail(act_queue[a])
                  /\ act_state'[a] = Executed(a, Head(act_queue[a]))]_vars
    /\ [][\A a \in ActuatorTypes :
              Len(act_queue'[a]) > Len(act_queue[a]) =>
                  /\ act_state'[a] = act_state[a]
                  /\ \/ /\ ctl_pc = "route" /\ ctl_commands # <<>>
                        /\ Head(ctl_commands).actuator = a
                        /\ ctl_commands' = Tail(ctl_commands)
                     \/ facade_calls' = facade_calls + 1]_vars
    /\ [][\A a \in ActuatorTypes :
              (act_queue[a] = <<>> /\ act_queue'[a] = <<>>) =>
                  act_state'[a] = act_state[a]]_vars
    /\ \A a \in ActuatorTypes :
           [](act_queue[a] = <<>>) => [](act_state[a] = FALSE)

\* The heater's loop has applied a command of the cycle and a command of
\* the dashboard: the heater is back off with both queues drained.
C35_Witness ==
    /\ facade_calls > 0
    /\ requested = "heater"
    /\ ctl_pc = "drain"
    /\ act_queue["heater"] = <<>>
    /\ act_state["heater"] = FALSE
    /\ HubInputs.heater

\* C36: for every sensor slot of the aggregate state, the stored value and
\* the stored timestamp describe the same reading: the drain step writes
\* both from one reading, and no later step gives a slot that holds a
\* reading's timestamp another value while it keeps that timestamp, also
\* when the sensor samples between the drain step and the refresh step.
C36_SlotDescribesOneReading ==
    [][\A s \in Sensors : \A k \in SlotRefs :
          (/\ slots[s][k].timestamp # 0
           /\ slots'[s][k].timestamp = slots[s][k].timestamp) =>
              slots'[s][k].value = slots[s][k].value]_vars

\* ========================================================================
\* The simulated level: the sensor loop's sampling against the controller's
\* simulation effect
\* ========================================================================

\* TemperatureSensor.__init__ / LightSensor.__init__: the level starts at
\* the configured initial value.
LevelConstruct(k, initial) ==
    /\ lv_kind = "none"
    /\ lv_kind' = k
    /\ lv_level' = initial
    /\ UNCHANGED <<lv_pc, lv_tmp, lv_ops, lv_out>>
    /\ UNCHANGED notLevel

ReadSensorLevel_Unclamped(k, sum) == sum

\* _read_sensor: max(min_value, min(max_value, level + change)).
ReadSensorLevel(k, sum) ==
    Max(LevelDefaults[k].min_value, Min(LevelDefaults[k].max_value, sum))

\* simulate_heating_effect / simulate_light_effect: a step up capped at
\* max_value when the actuator is on, a step down floored at min_value when
\* it is off.
EffectLevel(k, level, on) ==
    IF on THEN Min(LevelDefaults[k].max_value, level + LevelDefaults[k].up)
    ELSE Max(LevelDefaults[k].min_value, level - LevelDefaults[k].down)

\* _read_sensor, first half: draw the change, read the level and compute
\* the level to store. No lock is held.
SampleRead(change) ==
    /\ lv_kind # "none"
    /\ change \in Variations(lv_kind)
    /\ lv_pc["sensor"] = "idle"
    /\ lv_ops < MaxLevelOps
    /\ lv_ops' = lv_ops + 1
    /\ lv_tmp' = [lv_tmp EXCEPT !["sensor"] =
                     [read |-> lv_level, new |-> ReadSensorLevel(lv_kind, lv_level + change)]]
    /\ lv_pc' = [lv_pc EXCEPT !["sensor"] = "write"]
    /\ UNCHANGED <<lv_kind, lv_level, lv_out>>
    /\ UNCHANGED notLevel

\* _read_sensor, the assignment to self.current_temp / self.current_light.
SampleWrite ==
    /\ lv_pc["sensor"] = "write"
    /\ lv_level' = lv_tmp["sensor"].new
    /\ lv_pc' = [lv_pc EXCEPT !["sensor"] = "return"]
    /\ UNCHANGED <<lv_kind, lv_tmp, lv_ops, lv_out>>
    /\ UNCHANGED notLevel

\* _read_sensor, return round(level, ...): the level is read again; on the
\* grid of levels kept here the rounding returns the level itself. The
\* sensor loop publishes the returned value.
SampleReturn ==
    /\ lv_pc["sensor"] = "return"
    /\ lv_out' = <<lv_level>>
    /\ lv_pc' = [lv_pc EXCEPT !["sensor"] = "idle"]
    /\ UNCHANGED <<lv_kind, lv_level, lv_tmp, lv_ops>>
    /\ UNCHANGED notLevel

\* simulate_*_effect called by the controller thread, first half: read the
\* level and compute the level to store. No lock is held.
EffectRead(on) ==
    /\ lv_kind # "none"
    /\ lv_pc["controller"] = "idle"
    /\ lv_ops < MaxLevelOps
    /\ lv_ops' = lv_ops + 1
    /\ lv_tmp' = [lv_tmp EXCEPT !["controller"] =
                     [read |-> lv_level, new |-> EffectLevel(lv_kind, lv_level, on)]]
    /\ lv_pc' = [lv_pc EXCEPT !["controller"] = "write"]
    /\ UNCHANGED <<lv_kind, lv_level, lv_out>>
    /\ UNCHANGED notLevel

\* simulate_*_effect, the assignment.
EffectWrite ==
    /\ lv_pc["controller"] = "write"
    /\ lv_level' = lv_tmp["controller"].new
    /\ lv_pc' = [lv_pc EXCEPT !["controller"] = "idle"]
    /\ UNCHANGED <<lv_kind, lv_tmp, lv_ops, lv_out>>
    /\ UNCHANGED notLevel

LevelNext ==
    \/ \E k \in {"temperature", "light"} : \E initial \in InitialLevels(k) :
           LevelConstruct(k, initial)
    \/ \E change \in Variations("temperature") \cup Variations("light") : SampleRead(change)
    \/ SampleWrite
    \/ SampleReturn
    \/ \E on \in BOOLEAN : EffectRead(on)
    \/ EffectWrite

\* A sensor with its loop sampling and the controller simulating the
\* actuator's effect on it.
SpecLevel == InitDash /\ [][LevelNext]_vars

\* C37: the controller's simulation effect and the sensor loop's sampling
\* each read-modify-write the level from their own thread, and under every
\* interleaving no update is lost: when a thread stores its new level, the
\* level it overwrites is the one it computed from, so nothing the other
\* thread stored in between is discarded.
C37_NoLostUpdate ==
    [][\A t \in LevelThreads :
          (lv_pc[t] = "write" /\ lv_pc'[t] # "write") =>
              lv_tmp[t].read = lv_level]_vars

\* C38: a temperature or light sensor constructed with an initial value
\* inside [min_value, max_value] keeps its level inside that range in every
\* reachable state, whatever the interleaving of sampling and simulation
\* effect, and every value it returns for publication lies in the range.
C38_LevelInRange ==
    lv_kind # "none" =>
        LET lo == LevelDefaults[lv_kind].min_value
            hi == LevelDefaults[lv_kind].max_value
        IN /\ lv_level \in lo..hi
           /\ \A t \in LevelThreads : lv_pc[t] = "write" => lv_tmp[t].new \in lo..hi
           /\ lv_out # <<>> => lv_out[1] \in lo..hi

\* The controller read a level under the maximum and is about to store the
\* capped step up, while the sensor has since sampled up to the maximum and
\* returned it for publication.
C38_Witness ==
    /\ lv_kind # "none"
    /\ lv_pc["controller"] = "write"
    /\ lv_tmp["controller"].read # lv_level
    /\ lv_tmp["controller"].read + LevelDefaults[lv_kind].up > LevelDefaults[lv_kind].max_value
    /\ lv_tmp["controller"].new = LevelDefaults[lv_kind].max_value
    /\ lv_level = LevelDefaults[lv_kind].max_value
    /\ lv_out = <<LevelDefaults[lv_kind].max_value>>

\* ========================================================================
\* The legacy thread-based sensor: start(), run(), stop()
\* ========================================================================

\* Thread.start(), called by the legacy hub's start(): the thread exists;
\* start() returns without waiting for run() to execute its first line.
LegacyStart(s) ==
    /\ ls_pc[s] = "unstarted"
    /\ ls_pc' = [ls_pc EXCEPT ![s] = "spawned"]
    /\ UNCHANGED <<ls_running, ls_stopped, ls_published>>
    /\ UNCHANGED notLegacy

\* run(), first line: self.running = True.
LegacyRunBegin(s) ==
    /\ ls_pc[s] = "spawned"
    /\ ls_running' = [ls_running EXCEPT ![s] = TRUE]
    /\ ls_pc' = [ls_pc EXCEPT ![s] = "check"]
    /\ UNCHANGED <<ls_stopped, ls_published>>
    /\ UNCHANGED notLegacy

\* while self.running.
LegacyLoopCheck(s) ==
    /\ ls_pc[s] = "check"
    /\ ls_pc' = [ls_pc EXCEPT ![s] = IF ls_running[s] THEN "body" ELSE "exited"]
    /\ UNCHANGED <<ls_running, ls_stopped, ls_published>>
    /\ UNCHANGED notLegacy

\* The loop body: read_value(), queue.put(...), time.sleep(update_interval).
LegacyPublish(s) ==
    /\ ls_pc[s] = "body"
    /\ ls_published' = [ls_published EXCEPT ![s] = Min(@ + 1, MaxLegacyReadings)]
    /\ ls_pc' = [ls_pc EXCEPT ![s] = "check"]
    /\ UNCHANGED <<ls_running, ls_stopped>>
    /\ UNCHANGED notLegacy

\* stop(), called on a started sensor: self.running = False.
LegacyStop(s) ==
    /\ ls_pc[s] # "unstarted"
    /\ ~ls_stopped[s]
    /\ ls_running' = [ls_running EXCEPT ![s] = FALSE]
    /\ ls_stopped' = [ls_stopped EXCEPT ![s] = TRUE]
    /\ UNCHANGED <<ls_pc, ls_published>>
    /\ UNCHANGED notLegacy

\* The steps of one sensor thread.
LegacyThread(s) == LegacyRunBegin(s) \/ LegacyLoopCheck(s) \/ LegacyPublish(s)

LegacyNext ==
    \/ \E s \in LegacySensors : LegacyStart(s)
    \/ \E s \in LegacySensors : LegacyRunBegin(s)
    \/ \E s \in LegacySensors : LegacyLoopCheck(s)
    \/ \E s \in LegacySensors : LegacyPublish(s)
    \/ \E s \in LegacySensors : LegacyStop(s)

\* The legacy sensors, each thread scheduled again and again while it has
\* a step to take.
FairSpecLegacy ==
    /\ InitDash
    /\ [][LegacyNext]_vars
    /\ \A s \in LegacySensors : WF_vars(LegacyThread(s))

\* C39: in the legacy thread-based sensor, once stop() has been called on
\* a started sensor the sampling loop eventually terminates, under every
\* interleaving of start(), the thread's run() and stop(), stop() before
\* run() has begun included.
C39_StopTerminates ==
    \A s \in LegacySensors : ls_stopped[s] ~> (ls_pc[s] = "exited")

====
